---- MODULE Spec2Model ----
(***************************************************************************)
(* Verification model of the washer dirt simulation: the deterministic     *)
(* RNG (services/RNG.ts), the coverage map engine (systems/DirtSystem.ts,  *)
(* thickness and threshold initialisation) and the stroke-to-stamp         *)
(* converter (systems/StrokeSystem.ts).                                    *)
(*                                                                         *)
(* Numbers.  JavaScript numbers are modelled in fixed point: a real value  *)
(* r is the integer floor(r * ONE).  Grid coordinates, cell counts and     *)
(* squared cell distances are plain integers.  32-bit words of the RNG are *)
(* kept as two 16-bit halves so that every intermediate product fits the   *)
(* checker's integers.                                                     *)
(***************************************************************************)
EXTENDS Integers, Sequences, FiniteSets, TLC

\* ------------------------------------------------------------------------
\* Bounds of the model
\* ------------------------------------------------------------------------

\* Grid dimension (the `size` argument of DirtSystem; 256 in the game).
N == 3
\* Number of engine operations explored after construction.
MaxOps == 2
\* number of calls made to the stroke converter
MaxCalls == 4
\* number of next() calls made on a generator built on its own
MaxDraws == 5
\* number of level (re)initialisations after the scene was created
MaxLevels == 2
\* number of functions handler.bind() makes
MaxBinds == 2
\* number of EventBus calls
MaxBusCalls == 3

\* ------------------------------------------------------------------------
\* Fixed point
\* ------------------------------------------------------------------------

\* One unit of the fixed-point representation: the real 1.0.
ONE == 1000

Min(a, b) == IF a < b THEN a ELSE b
Max(a, b) == IF a > b THEN a ELSE b

\* Stands for the JavaScript value NaN where an input may be NaN.
NaN == -1000000000

\* ------------------------------------------------------------------------
\* 32-bit words as 16-bit halves
\* ------------------------------------------------------------------------

W16 == 65536

Pow2(k) == CASE k = 0 -> 1 [] k = 1 -> 2 [] k = 2 -> 4 [] k = 4 -> 16
             [] k = 7 -> 128 [] k = 8 -> 256 [] k = 9 -> 512 [] k = 12 -> 4096
             [] k = 14 -> 16384 [] k = 15 -> 32768 [] k = 16 -> 65536

\* a ^ b for 4-bit a and b: XOR4[a + 1][b + 1]
XOR4 ==
  <<
     << 0, 1, 2, 3, 4, 5, 6, 7, 8, 9, 10, 11, 12, 13, 14, 15 >>,
     << 1, 0, 3, 2, 5, 4, 7, 6, 9, 8, 11, 10, 13, 12, 15, 14 >>,
     << 2, 3, 0, 1, 6, 7, 4, 5, 10, 11, 8, 9, 14, 15, 12, 13 >>,
     << 3, 2, 1, 0, 7, 6, 5, 4, 11, 10, 9, 8, 15, 14, 13, 12 >>,
     << 4, 5, 6, 7, 0, 1, 2, 3, 12, 13, 14, 15, 8, 9, 10, 11 >>,
     << 5, 4, 7, 6, 1, 0, 3, 2, 13, 12, 15, 14, 9, 8, 11, 10 >>,
     << 6, 7, 4, 5, 2, 3, 0, 1, 14, 15, 12, 13, 10, 11, 8, 9 >>,
     << 7, 6, 5, 4, 3, 2, 1, 0, 15, 14, 13, 12, 11, 10, 9, 8 >>,
     << 8, 9, 10, 11, 12, 13, 14, 15, 0, 1, 2, 3, 4, 5, 6, 7 >>,
     << 9, 8, 11, 10, 13, 12, 15, 14, 1, 0, 3, 2, 5, 4, 7, 6 >>,
     << 10, 11, 8, 9, 14, 15, 12, 13, 2, 3, 0, 1, 6, 7, 4, 5 >>,
     << 11, 10, 9, 8, 15, 14, 13, 12, 3, 2, 1, 0, 7, 6, 5, 4 >>,
     << 12, 13, 14, 15, 8, 9, 10, 11, 4, 5, 6, 7, 0, 1, 2, 3 >>,
     << 13, 12, 15, 14, 9, 8, 11, 10, 5, 4, 7, 6, 1, 0, 3, 2 >>,
     << 14, 15, 12, 13, 10, 11, 8, 9, 6, 7, 4, 5, 2, 3, 0, 1 >>,
     << 15, 14, 13, 12, 11, 10, 9, 8, 7, 6, 5, 4, 3, 2, 1, 0 >>
  >>

Nibble(a, k) == (a \div Pow2(4 * k)) % 16

\* a ^ b for 16-bit a and b, four bits at a time
BitXor(a, b) ==
  XOR4[Nibble(a, 0) + 1][Nibble(b, 0) + 1]
    + 16 * XOR4[Nibble(a, 1) + 1][Nibble(b, 1) + 1]
    + 256 * XOR4[Nibble(a, 2) + 1][Nibble(b, 2) + 1]
    + 4096 * XOR4[Nibble(a, 3) + 1][Nibble(b, 3) + 1]

RECURSIVE BitOr(_, _, _)
BitOr(a, b, n) ==
  IF n = 0 THEN 0
  ELSE (IF a % 2 = 1 \/ b % 2 = 1 THEN 1 ELSE 0)
         + 2 * BitOr(a \div 2, b \div 2, n - 1)

\* a ^ b on 32-bit words
Xor32(a, b) == [hi |-> BitXor(a.hi, b.hi), lo |-> BitXor(a.lo, b.lo)]

\* a | c for a small constant c < 2^16
Or32(a, c) == [hi |-> a.hi, lo |-> BitOr(a.lo, c, 16)]

\* a >>> k for 0 < k < 16
Shr32(a, k) ==
  [hi |-> a.hi \div Pow2(k),
   lo |-> (a.lo \div Pow2(k)) + ((a.hi % Pow2(k)) * Pow2(16 - k))]

\* (a + b) mod 2^32
Add32(a, b) ==
  LET l == a.lo + b.lo
  IN  [hi |-> (a.hi + b.hi + (l \div W16)) % W16, lo |-> l % W16]

\* the full 32-bit product of two 16-bit numbers
Mul16(x, y) ==
  LET q == x * (y \div 256)
      l == (x * (y % 256)) + ((q % 256) * 256)
  IN  [hi |-> (l \div W16) + (q \div 256), lo |-> l % W16]

\* Math.imul(a, b): the low 32 bits of the product
Imul32(a, b) ==
  LET p == Mul16(a.lo, b.lo)
  IN  [hi |-> (p.hi + Mul16(a.hi, b.lo).lo + Mul16(a.lo, b.hi).lo) % W16,
       lo |-> p.lo]

\* ------------------------------------------------------------------------
\* RNG (services/RNG.ts)
\* ------------------------------------------------------------------------

\* 0x6d2b79f5
RNG_INC == [hi |-> 27947, lo |-> 31221]

\* the constructor keeping a zero seed as state 0
RNG_new_noRemap(seed) ==
  [hi |-> (seed \div W16) % W16, lo |-> seed % W16]

\* constructor(seed): state = seed >>> 0, zero remapped to 0x6d2b79f5
RNG_new(seed) ==
  LET s == [hi |-> (seed \div W16) % W16, lo |-> seed % W16]
  IN  IF s.hi = 0 /\ s.lo = 0 THEN RNG_INC ELSE s

\* `this.state += 0x6d2b79f5`: a Number addition, no wrap to 32 bits.  The
\* high half therefore keeps growing; the low half carries into it.
RNG_advance(state) ==
  LET l == state.lo + RNG_INC.lo
  IN  [hi |-> state.hi + RNG_INC.hi + (l \div W16), lo |-> l % W16]

\* ToInt32/ToUint32 of the Number held in the state
ToU32(state) == [hi |-> state.hi % W16, lo |-> state.lo]

\* t = Math.imul(t ^ (t >>> 15), t | 1)
RNG_mix1(t) == Imul32(Xor32(t, Shr32(t, 15)), Or32(t, 1))

\* t ^= t + Math.imul(t ^ (t >>> 7), t | 61)
RNG_mix2(t) == Xor32(t, Add32(t, Imul32(Xor32(t, Shr32(t, 7)), Or32(t, 61))))

\* (t ^ (t >>> 14)) >>> 0
RNG_mix3(t) == Xor32(t, Shr32(t, 14))

\* the value next() returns, given the already advanced state
RNG_output(state) == RNG_mix3(RNG_mix2(RNG_mix1(ToU32(state))))

\* w / 2^32 in fixed point
RNG_unit(w) == ((w.hi * ONE) + ((w.lo * ONE) \div W16)) \div W16

\* float(): next() / 2^32
RNG_floatOf(state) == RNG_unit(RNG_output(state))

\* n successive `this.state += 0x6d2b79f5` steps
RECURSIVE RNG_skip(_, _)
RNG_skip(state, n) == IF n = 0 THEN state ELSE RNG_skip(RNG_advance(state), n - 1)

\* The seeds explored, and the number of draws of one RNG whose values are
\* tabulated (two layers of three noise grids).
Seeds == {0, 42}
\* seeds GameContext.nextLevel() draws: any of 1 .. 65535
NextSeeds == {7, 42}
DrawsTabulated == 6 * N * N

\* state :> float value, for the first n states after `state`
RECURSIVE RNG_tabulate(_, _)
RNG_tabulate(state, n) ==
  IF n = 0 THEN << >>
  ELSE LET s1 == RNG_advance(state)
       IN  (s1 :> RNG_floatOf(s1)) @@ RNG_tabulate(s1, n - 1)

RECURSIVE RNG_tables(_)
RNG_tables(seeds) ==
  IF seeds = {} THEN << >>
  ELSE LET seed == CHOOSE x \in seeds : TRUE
       IN  RNG_tabulate(RNG_new(seed), DrawsTabulated)
             @@ RNG_tables(seeds \ {seed})

\* RNG_floatOf on the states the explored seeds reach, computed once
RNG_table == RNG_tables(Seeds \cup NextSeeds)

\* float() of an already advanced state: the tabulated value where there is
\* one, the computation otherwise
RNG_lookup(table, state) ==
  IF state \in DOMAIN table THEN table[state] ELSE RNG_floatOf(state)

RNG_float(state) == RNG_lookup(RNG_table, state)

\* ------------------------------------------------------------------------
\* Coverage map engine (systems/DirtSystem.ts)
\* ------------------------------------------------------------------------

BLUR_RADIUS == 2
BLUR_DIAMETER == BLUR_RADIUS * 2 + 1
BASE_RADIUS_PX == 10
BINARY_SEARCH_STEPS == 12
\* default eps of getUnionDirtyRatio: 0.05
EPS == 50

LayerIds == {"mold", "grease"}
Cells == 0 .. (N * N - 1)
ZeroGrid == [i \in Cells |-> 0]
\* the arrays the constructor binds to the layer ids: for each id, the first
\* array allocated for it
NewArrays == [id \in LayerIds |-> 1]

RECURSIVE SumSeq(_)
SumSeq(s) == IF s = << >> THEN 0 ELSE Head(s) + SumSeq(Tail(s))

\* constructor: number of cells with mask[i] === 1
CountInside(m) == SumSeq([k \in 1 .. (N * N) |-> IF m[k - 1] = 1 THEN 1 ELSE 0])

\* clampCoordinate wrapping around to the opposite edge
clampCoordinate_wrap(value) == (value + 2 * N) % N

clampCoordinate(value) ==
  IF value < 0 THEN 0 ELSE IF value >= N THEN N - 1 ELSE value

clampColumn(value) == clampCoordinate(value)
clampRow(value) == clampCoordinate(value)

\* clamp01 without the lower bound
clamp01_above(value) ==
  IF value = NaN THEN 0
  ELSE IF value >= ONE THEN ONE
  ELSE value

clamp01(value) ==
  IF value = NaN THEN 0
  ELSE IF value <= 0 THEN 0
  ELSE IF value >= ONE THEN ONE
  ELSE value

\* Math.min(size - 1, Math.floor(clamped * size))
CellCoord(w) == Min(N - 1, (clamp01(w) * N) \div ONE)

\* softFalloff without its peak: 0 at the centre as well
softFalloff_hollow(distanceRatio) ==
  LET clamped == Min(ONE, Max(0, distanceRatio))
  IN  IF clamped >= ONE \/ clamped <= 0 THEN 0
      ELSE ((ONE - clamped) * (ONE - clamped)) \div ONE

softFalloff(distanceRatio) ==
  LET clamped == Min(ONE, Max(0, distanceRatio))
  IN  IF clamped >= ONE THEN 0
      ELSE ((ONE - clamped) * (ONE - clamped)) \div ONE

\* Math.sqrt on a fixed-point argument given as q = x * ONE * ONE:
\* the largest r with r * r <= q, found by bisection on [lo, hi)
RECURSIVE SqrtBisect(_, _, _)
SqrtBisect(q, lo, hi) ==
  IF hi - lo <= 1 THEN lo
  ELSE LET mid == (lo + hi) \div 2
       IN  IF mid * mid <= q THEN SqrtBisect(q, mid, hi)
           ELSE SqrtBisect(q, lo, mid)

Sqrt(q) == SqrtBisect(q, 0, 46341)

\* the window sum the blur starts a row or column with
RECURSIVE WindowSum(_, _, _, _)
WindowSum(buf, base, stride, k) ==
  IF k > BLUR_RADIUS THEN 0
  ELSE buf[base + stride * clampCoordinate(k)]
         + WindowSum(buf, base, stride, k + 1)

\* one row (stride 1) or column (stride N) of the sliding-window pass:
\* write sum / BLUR_DIAMETER, then slide the window by one
RECURSIVE Slide(_, _, _, _, _, _)
Slide(src, dst, base, stride, p, sum) ==
  IF p >= N THEN dst
  ELSE Slide(src,
             [dst EXCEPT ![base + stride * p] = sum \div BLUR_DIAMETER],
             base, stride, p + 1,
             sum + (src[base + stride * clampCoordinate(p + BLUR_RADIUS + 1)]
                    - src[base + stride * clampCoordinate(p - BLUR_RADIUS)]))

RECURSIVE BlurRows(_, _, _)
BlurRows(src, dst, y) ==
  IF y >= N THEN dst
  ELSE BlurRows(src,
                Slide(src, dst, y * N, 1, 0, WindowSum(src, y * N, 1, -BLUR_RADIUS)),
                y + 1)

RECURSIVE BlurCols(_, _, _)
BlurCols(src, dst, x) ==
  IF x >= N THEN dst
  ELSE BlurCols(src,
                Slide(src, dst, x, N, 0, WindowSum(src, x, N, -BLUR_RADIUS)),
                x + 1)

\* applyBoxBlur(buffer, temp): horizontal pass buffer -> temp, vertical pass
\* temp -> buffer; both arrays are returned
applyBoxBlur(buffer, temp) ==
  LET t == BlurRows(buffer, temp, 0)
  IN  [buffer |-> BlurCols(t, buffer, 0), temp |-> t]

\* coverage[layer.id] ?? 0, clamped to [0, 1]
\* Target taking a layer missing from the targets as fully covered
Target_missingFull(coverage, id) ==
  Min(ONE, Max(0, IF id \in DOMAIN coverage THEN coverage[id] ELSE ONE))

Target(coverage, id) ==
  Min(ONE, Max(0, IF id \in DOMAIN coverage THEN coverage[id] ELSE 0))

\* init, thickness variant: the loop drawing three noise samples per cell
RECURSIVE FillNoise3(_, _, _, _, _)
FillNoise3(i, state, large, medium, small) ==
  IF i >= N * N
    THEN [rng |-> state, large |-> large, medium |-> medium, small |-> small]
    ELSE LET s1 == RNG_advance(state)
             s2 == RNG_advance(s1)
             s3 == RNG_advance(s2)
         IN  FillNoise3(i + 1, s3,
                        [large EXCEPT ![i] = RNG_float(s1)],
                        [medium EXCEPT ![i] = RNG_float(s2)],
                        [small EXCEPT ![i] = RNG_float(s3)])

\* ThicknessWrite writing the thickness to every cell, inside or not
ThicknessWrite_noMask(m, target, state, temp, combined) ==
  [rng |-> state,
   scratchA |-> combined,
   scratchB |-> temp,
   map |-> [i \in Cells |-> (combined[i] * target) \div ONE]]

\* the final loop of the layer: map[i] = mask[i] === 1 ? combined * target : 0;
\* combined stays in scratchA, the blur's temp in scratchB
ThicknessWrite(m, target, state, temp, combined) ==
  [rng |-> state,
   scratchA |-> combined,
   scratchB |-> temp,
   map |-> [i \in Cells |->
              IF m[i] = 1 THEN (combined[i] * target) \div ONE ELSE 0]]

\* combined = large * 0.4 + medium * 0.3 + small * 0.3
ThicknessCombine(m, target, noise, large, medium) ==
  ThicknessWrite(m, target, noise.rng, medium.temp,
                 [i \in Cells |->
                    (4 * large.buffer[i] + 3 * medium.buffer[i]
                       + 3 * noise.small[i]) \div 10])

\* one blur of the medium noise, after the large noise was blurred
ThicknessMedium(m, target, noise, large) ==
  ThicknessCombine(m, target, noise, large,
                   applyBoxBlur(noise.medium, large.temp))

\* a further blur of an already blurred pair of arrays
blurAgain(b) == applyBoxBlur(b.buffer, b.temp)

\* two blurs of the large noise
ThicknessLarge(m, target, noise, tmp) ==
  ThicknessMedium(m, target, noise, blurAgain(applyBoxBlur(noise.large, tmp)))

\* init, thickness variant: the body of the layer loop for one layer with
\* target > 0 and a non-empty silhouette
ThicknessLayer(m, target, state, tmp) ==
  ThicknessLarge(m, target,
                 FillNoise3(0, state, ZeroGrid, ZeroGrid, ZeroGrid), tmp)

\* init, threshold variant: one noise sample per cell, written to scratchA
RECURSIVE FillNoise1(_, _, _)
FillNoise1(i, state, buf) ==
  IF i >= N * N THEN [rng |-> state, buf |-> buf]
  ELSE LET s1 == RNG_advance(state)
       IN  FillNoise1(i + 1, s1, [buf EXCEPT ![i] = RNG_float(s1)])

\* thresholds of the binary search are multiples of 2^-13
TUNIT == 8192

\* noise value (fixed point) >= threshold (in units of 1/TUNIT)
AtLeast(value, threshold) == value * TUNIT >= threshold * ONE

\* coverageRatio(values, threshold) > target, the test of the binary search;
\* count / insideCount is compared exactly
RatioAbove(values, m, inside, threshold, target) ==
  LET count == SumSeq([k \in 1 .. (N * N) |->
                 IF m[k - 1] = 1 /\ AtLeast(values[k - 1], threshold)
                   THEN 1 ELSE 0])
  IN  count * ONE > target * inside

RECURSIVE BinarySearch(_, _, _, _, _, _, _)
BinarySearch(values, m, inside, target, low, high, i) ==
  IF i >= BINARY_SEARCH_STEPS THEN (low + high) \div 2
  ELSE LET mid == (low + high) \div 2
       IN  IF RatioAbove(values, m, inside, mid, target)
             THEN BinarySearch(values, m, inside, target, mid, high, i + 1)
             ELSE BinarySearch(values, m, inside, target, low, mid, i + 1)

\* findThreshold with the results of its two early returns exchanged
findThreshold_swapped(values, m, inside, target) ==
  IF target >= ONE THEN TUNIT
  ELSE IF target <= 0 \/ inside = 0 THEN 0
  ELSE BinarySearch(values, m, inside, target, 0, TUNIT, 0)

\* findThreshold without the search
findThreshold_noSearch(values, m, inside, target) ==
  IF target >= ONE THEN 0
  ELSE IF target <= 0 \/ inside = 0 THEN TUNIT
  ELSE TUNIT \div 2

\* findThreshold(values, target), in units of 1/TUNIT
findThreshold(values, m, inside, target) ==
  IF target >= ONE THEN 0
  ELSE IF target <= 0 \/ inside = 0 THEN TUNIT
  ELSE BinarySearch(values, m, inside, target, 0, TUNIT, 0)

\* map[i] = mask[i] === 1 && scratchA[i] >= threshold ? 1 : 0
ThresholdWrite(m, state, blur, threshold) ==
  [rng |-> state,
   scratchA |-> blur.buffer,
   scratchB |-> blur.temp,
   map |-> [i \in Cells |->
              IF m[i] = 1 /\ AtLeast(blur.buffer[i], threshold)
                THEN ONE ELSE 0]]

\* the threshold of the blurred noise for the layer's target
ThresholdBlurred(m, inside, target, state, blur) ==
  ThresholdWrite(m, state, blur, findThreshold(blur.buffer, m, inside, target))

\* one blur of the noise in scratchA
ThresholdNoise(m, inside, target, noise, tmp) ==
  ThresholdBlurred(m, inside, target, noise.rng, applyBoxBlur(noise.buf, tmp))

\* init, threshold variant: the body of the layer loop for one layer
ThresholdLayer(m, inside, target, state, bufA, tmp) ==
  ThresholdNoise(m, inside, target, FillNoise1(0, state, bufA), tmp)

\* StoreLayer binding a newly allocated array to the layer id
StoreLayer_fresh(e, id, r) ==
  [maps |-> [e.maps EXCEPT ![id] = r.map],
   arrays |-> [e.arrays EXCEPT ![id] = @ + 1],
   scratchA |-> r.scratchA,
   scratchB |-> r.scratchB,
   rng |-> r.rng]

\* the engine after a layer's values r = [map, scratchA, scratchB, rng] are
\* written into the array ensureMap(id) returned and into the scratch arrays
StoreLayer(e, id, r) ==
  [maps |-> [e.maps EXCEPT ![id] = r.map],
   arrays |-> e.arrays,
   scratchA |-> r.scratchA,
   scratchB |-> r.scratchB,
   rng |-> r.rng]

\* InitLayer leaving the map of a layer with target <= 0 as it was
InitLayer_keep(kind, m, inside, id, target, e) ==
  IF target <= 0 \/ inside = 0 THEN e
  ELSE StoreLayer(e, id,
                  IF kind = "thickness"
                    THEN ThicknessLayer(m, target, e.rng, e.scratchB)
                    ELSE ThresholdLayer(m, inside, target, e.rng,
                                        e.scratchA, e.scratchB))

\* init(rng, coverage): the body of the loop over the layers, for the layer
\* `id` with its clamped target.  e is the engine record
\* [maps, scratchA, scratchB, rng].
InitLayer(kind, m, inside, id, target, e) ==
  IF target <= 0 \/ inside = 0 THEN [e EXCEPT !.maps[id] = ZeroGrid]
  ELSE StoreLayer(e, id,
                  IF kind = "thickness"
                    THEN ThicknessLayer(m, target, e.rng, e.scratchB)
                    ELSE ThresholdLayer(m, inside, target, e.rng,
                                        e.scratchA, e.scratchB))

\* init(rng, coverage): the loop over the configured layers, from layer k on
RECURSIVE InitLayers(_, _, _, _, _, _, _)
InitLayers(kind, m, inside, ls, coverage, k, e) ==
  IF k > Len(ls) THEN e
  ELSE InitLayers(kind, m, inside, ls, coverage, k + 1,
                  InitLayer(kind, m, inside, ls[k].id,
                            Target(coverage, ls[k].id), e))

\* Radius without the floors: radiusFactor as given, no minimum of one cell
Radius_noFloor(layer, radiusFactor) ==
  (BASE_RADIUS_PX * layer.baseRadius * radiusFactor) \div ONE

\* Radius without the layer's baseRadius
Radius_noBase(layer, radiusFactor) ==
  LET safeRadiusFactor == Max(200, radiusFactor)
  IN  Max(ONE, BASE_RADIUS_PX * safeRadiusFactor)

\* effective stamp radius of a layer, fixed point
Radius(layer, radiusFactor) ==
  LET safeRadiusFactor == Max(200, radiusFactor)
  IN  Max(ONE, (BASE_RADIUS_PX * layer.baseRadius * safeRadiusFactor) \div ONE)

\* StampCell storing the difference without the floor at 0
StampCell_noFloor(map, m, layer, centerX, centerY, radius, strength, x, y) ==
  LET minX == Max(0, (centerX * ONE - radius) \div ONE)
      maxX == Min(N - 1, -((-(centerX * ONE + radius)) \div ONE))
      minY == Max(0, (centerY * ONE - radius) \div ONE)
      maxY == Min(N - 1, -((-(centerY * ONE + radius)) \div ONE))
      dx == x - centerX
      dy == y - centerY
      distSq == dx * dx + dy * dy
      index == y * N + x
      distance == Sqrt(distSq * ONE * ONE)
      falloff == softFalloff((distance * ONE) \div radius)
      delta == (((falloff * strength) \div ONE) * layer.eraseRate) \div ONE
      next == map[index] - delta
  IN  IF x < minX \/ x > maxX \/ y < minY \/ y > maxY THEN map[index]
      ELSE IF distSq * ONE * ONE > radius * radius THEN map[index]
      ELSE IF m[index] = 0 THEN map[index]
      ELSE IF distance >= radius THEN map[index]
      ELSE IF falloff <= 0 THEN map[index]
      ELSE next

\* StampCell adding the delta
StampCell_add(map, m, layer, centerX, centerY, radius, strength, x, y) ==
  LET minX == Max(0, (centerX * ONE - radius) \div ONE)
      maxX == Min(N - 1, -((-(centerX * ONE + radius)) \div ONE))
      minY == Max(0, (centerY * ONE - radius) \div ONE)
      maxY == Min(N - 1, -((-(centerY * ONE + radius)) \div ONE))
      dx == x - centerX
      dy == y - centerY
      distSq == dx * dx + dy * dy
      index == y * N + x
      distance == Sqrt(distSq * ONE * ONE)
      falloff == softFalloff((distance * ONE) \div radius)
      delta == (((falloff * strength) \div ONE) * layer.eraseRate) \div ONE
      next == map[index] + delta
  IN  IF x < minX \/ x > maxX \/ y < minY \/ y > maxY THEN map[index]
      ELSE IF distSq * ONE * ONE > radius * radius THEN map[index]
      ELSE IF m[index] = 0 THEN map[index]
      ELSE IF distance >= radius THEN map[index]
      ELSE IF falloff <= 0 THEN map[index]
      ELSE IF next > 0 THEN next ELSE 0

\* StampCell leaving a cell as it is when the stamp would take it below 0
StampCell_noUnderflow(map, m, layer, centerX, centerY, radius, strength, x, y) ==
  LET minX == Max(0, (centerX * ONE - radius) \div ONE)
      maxX == Min(N - 1, -((-(centerX * ONE + radius)) \div ONE))
      minY == Max(0, (centerY * ONE - radius) \div ONE)
      maxY == Min(N - 1, -((-(centerY * ONE + radius)) \div ONE))
      dx == x - centerX
      dy == y - centerY
      distSq == dx * dx + dy * dy
      index == y * N + x
      distance == Sqrt(distSq * ONE * ONE)
      falloff == softFalloff((distance * ONE) \div radius)
      delta == (((falloff * strength) \div ONE) * layer.eraseRate) \div ONE
      next == map[index] - delta
  IN  IF x < minX \/ x > maxX \/ y < minY \/ y > maxY THEN map[index]
      ELSE IF distSq * ONE * ONE > radius * radius THEN map[index]
      ELSE IF m[index] = 0 THEN map[index]
      ELSE IF distance >= radius THEN map[index]
      ELSE IF falloff <= 0 THEN map[index]
      ELSE IF next >= 0 THEN next ELSE map[index]

\* applyStampUV: the new value of cell (x, y) of one layer's map
StampCell(map, m, layer, centerX, centerY, radius, strength, x, y) ==
  LET minX == Max(0, (centerX * ONE - radius) \div ONE)
      maxX == Min(N - 1, -((-(centerX * ONE + radius)) \div ONE))
      minY == Max(0, (centerY * ONE - radius) \div ONE)
      maxY == Min(N - 1, -((-(centerY * ONE + radius)) \div ONE))
      dx == x - centerX
      dy == y - centerY
      distSq == dx * dx + dy * dy
      index == y * N + x
      distance == Sqrt(distSq * ONE * ONE)
      falloff == softFalloff((distance * ONE) \div radius)
      delta == (((falloff * strength) \div ONE) * layer.eraseRate) \div ONE
      next == map[index] - delta
  IN  IF x < minX \/ x > maxX \/ y < minY \/ y > maxY THEN map[index]
      ELSE IF distSq * ONE * ONE > radius * radius THEN map[index]
      ELSE IF m[index] = 0 THEN map[index]
      ELSE IF distance >= radius THEN map[index]
      ELSE IF falloff <= 0 THEN map[index]
      ELSE IF next > 0 THEN next ELSE 0

RECURSIVE StampLayers(_, _, _, _, _, _, _, _)
StampLayers(mps, m, ls, k, centerX, centerY, strength, radiusFactor) ==
  IF k > Len(ls) THEN mps
  ELSE LET layer == ls[k]
           radius == Radius(layer, radiusFactor)
           new == [i \in Cells |->
                     StampCell(mps[layer.id], m, layer, centerX, centerY,
                               radius, strength, i % N, i \div N)]
       IN  StampLayers([mps EXCEPT ![layer.id] = new], m, ls, k + 1,
                       centerX, centerY, strength, radiusFactor)

\* applyStampUV without the strength guard
applyStampUV_noGuard(mps, m, ls, u, v, strength, radiusFactor) ==
  StampLayers(mps, m, ls, 1, CellCoord(u), CellCoord(v), strength, radiusFactor)

\* applyStampUV(u, v, strength, radiusFactor): the maps afterwards
applyStampUV(mps, m, ls, u, v, strength, radiusFactor) ==
  IF strength <= 0 THEN mps
  ELSE StampLayers(mps, m, ls, 1, CellCoord(u), CellCoord(v),
                   strength, radiusFactor)

\* ensureMap(id): the array bound to id and what it holds.  The constructor
\* binds an array to 'mold' and to 'grease' and to every configured layer, so
\* the allocating branch is never taken.
ensureMap(mps, arr, id) == [array |-> arr[id], values |-> mps[id]]

getMap(mps, arr, id) == ensureMap(mps, arr, id)

getMapsForShader(mps, arr) ==
  [size |-> N,
   map0 |-> ensureMap(mps, arr, "mold"),
   map1 |-> ensureMap(mps, arr, "grease")]

\* UnionDirtyCount looking at the mold map only
UnionDirtyCount_moldOnly(mps, m, eps) ==
  SumSeq([k \in 1 .. (N * N) |->
            IF m[k - 1] # 0 /\ mps["mold"][k - 1] > eps THEN 1 ELSE 0])

\* getUnionDirtyRatio(eps): the number of dirty inside cells ...
UnionDirtyCount(mps, m, eps) ==
  SumSeq([k \in 1 .. (N * N) |->
            IF m[k - 1] # 0 /\ (mps["mold"][k - 1] > eps \/ mps["grease"][k - 1] > eps)
              THEN 1 ELSE 0])

\* ... divided by insideCount, in fixed point; 0 without inside cells
getUnionDirtyRatio(mps, m, inside, eps) ==
  IF inside = 0 THEN 0
  ELSE (UnionDirtyCount(mps, m, eps) * ONE) \div inside

\* getUnionDirtyValueAt reading column v of row u
getUnionDirtyValueAt_swapped(mps, m, u, v) ==
  LET index == CellCoord(u) * N + CellCoord(v)
  IN  IF m[index] = 0 THEN 0
      ELSE Max(mps["mold"][index], mps["grease"][index])

getUnionDirtyValueAt(mps, m, u, v) ==
  LET index == CellCoord(v) * N + CellCoord(u)
  IN  IF m[index] = 0 THEN 0
      ELSE Max(mps["mold"][index], mps["grease"][index])

\* SilhouetteClip.clamp01
SilhouetteClamp01(value) ==
  IF value = NaN THEN 0 ELSE Min(ONE, Max(0, value))

\* SilhouetteClip.uvToIndex
uvToIndex(u, v) ==
  Min(N - 1, (SilhouetteClamp01(v) * N) \div ONE) * N
    + Min(N - 1, (SilhouetteClamp01(u) * N) \div ONE)

\* ------------------------------------------------------------------------
\* Stroke converter (StrokeSystem): positions, distances and the spacing are
\* px in fixed point, times are ms
\* ------------------------------------------------------------------------

\* GameScene.clampUV: clamp to [UV_EPSILON, 1 - UV_EPSILON]; the epsilon is
\* one step of the fixed-point resolution
UV_EPSILON == 1
clampUV(value) == Min(ONE - UV_EPSILON, Max(UV_EPSILON, value))

\* the projected bounds of the mesh: left = top = 0, width = height
WorldSize == 9 * ONE

\* GameScene.worldToLocal(x, y), handed to the converter as worldToUV
worldToLocal(x, y) ==
  [u |-> clampUV((x * ONE) \div WorldSize),
   v |-> clampUV((y * ONE) \div WorldSize)]

\* computeJitter() given the value rng.frac() returned
computeJitter(t, frac) ==
  IF t.jitter <= 0 THEN 0
  ELSE (frac * 2 * t.jitter) \div ONE - t.jitter

\* computeSpeedBoost(distance, dtMs); distance and dtMs in fixed point
computeSpeedBoost(t, distance, dtMs) ==
  IF ~t.speedBoost \/ dtMs <= 0 \/ distance <= 0 THEN ONE
  ELSE LET speed == (distance * 1000) \div dtMs
           normalized == IF speed >= 600 THEN ONE ELSE (speed * ONE) \div 600
       IN  ONE + (150 * normalized) \div ONE

\* the k-th value of rng.frac() (k from 0)
FracAt(stream, k) == stream[(k % Len(stream)) + 1]

\* placeStamp(x, y, distance, dtMs, dirX, dirY) for the request rq, on the
\* record st = [maps, draws, placed]
PlaceStamp(t, stream, m, ls, st, rq) ==
  LET uv == worldToLocal(rq.x, rq.y)
      jitter == computeJitter(t, FracAt(stream, st.draws))
      boost == computeSpeedBoost(t, rq.distance, rq.dtMs)
      radiusFactor == (Max(200, ONE + jitter) * boost) \div ONE
  IN  [maps |-> applyStampUV(st.maps, m, ls, uv.u, uv.v, t.strength,
                             radiusFactor),
       draws |-> IF t.jitter <= 0 THEN st.draws ELSE st.draws + 1,
       placed |-> Append(st.placed,
                         [x |-> rq.x, y |-> rq.y, kind |-> rq.kind,
                          distance |-> rq.distance,
                          radiusFactor |-> radiusFactor])]

\* the placeStamp calls of one handler, in order
RECURSIVE PlaceAll(_, _, _, _, _, _, _)
PlaceAll(t, stream, m, ls, st, rqs, k) ==
  IF k > Len(rqs) THEN st
  ELSE PlaceAll(t, stream, m, ls, PlaceStamp(t, stream, m, ls, st, rqs[k]),
                rqs, k + 1)

\* Math.sqrt(dx * dx + dy * dy), fixed point
Dist(dx, dy) == Sqrt(dx * dx + dy * dy)

\* the placeStamp call of handleUp, left out when the pointer did not move
UpRequests_moved(x, y, dist, dt, dirX, dirY) ==
  IF dist = 0 THEN << >>
  ELSE << [x |-> x, y |-> y, distance |-> dist, dtMs |-> dt * ONE,
           dirX |-> dirX, dirY |-> dirY, kind |-> "up"] >>

\* StrokeSystem.handleUp: its placeStamp(x, y, dist, dt, dirX, dirY)
UpRequests(x, y, dist, dt, dirX, dirY) ==
  << [x |-> x, y |-> y, distance |-> dist, dtMs |-> dt * ONE,
      dirX |-> dirX, dirY |-> dirY, kind |-> "up"] >>

\* the while loop of handleMove measuring each spacing from the start of the
\* segment, the residual of the samples before it forgotten
RECURSIVE MoveLoop_noCarry(_, _, _, _)
MoveLoop_noCarry(c, res, travelled, acc) ==
  IF (c.dist - travelled) >= c.spacing /\ c.dist > 0
    THEN LET needed == c.spacing
             tr == travelled + needed
             ratioNum == Min(c.dist, Max(0, tr))
             sx == c.lastX + ((c.x - c.lastX) * ratioNum) \div c.dist
             sy == c.lastY + ((c.y - c.lastY) * ratioNum) \div c.dist
             stampDt == (c.dt * needed * ONE) \div Max(c.dist, c.spacing)
         IN  MoveLoop_noCarry(c, 0, tr,
                      Append(acc, [x |-> sx, y |-> sy, distance |-> needed,
                                   dtMs |-> stampDt, dirX |-> c.dirX,
                                   dirY |-> c.dirY, kind |-> "move"]))
    ELSE [stamps |-> acc, residual |-> res, travelled |-> travelled]

\* the while loop of handleMove without its `this.residual = 0`: every
\* iteration advances by the first one's `needed`
RECURSIVE MoveLoop_keepResidual(_, _, _, _)
MoveLoop_keepResidual(c, res, travelled, acc) ==
  IF res + (c.dist - travelled) >= c.spacing /\ c.dist > 0
    THEN LET needed == c.spacing - res
             tr == travelled + Max(1, needed)
             ratioNum == Min(c.dist, Max(0, tr))
             sx == c.lastX + ((c.x - c.lastX) * ratioNum) \div c.dist
             sy == c.lastY + ((c.y - c.lastY) * ratioNum) \div c.dist
             stampDt == (c.dt * needed * ONE) \div Max(c.dist, c.spacing)
         IN  MoveLoop_keepResidual(c, res, tr,
                      Append(acc, [x |-> sx, y |-> sy, distance |-> needed,
                                   dtMs |-> stampDt, dirX |-> c.dirX,
                                   dirY |-> c.dirY, kind |-> "move"]))
    ELSE [stamps |-> acc, residual |-> res, travelled |-> travelled]

\* StrokeSystem.handleMove: the while loop.  c holds the locals of the call;
\* res is this.residual, travelled is travelledAlongSegment, acc the
\* placeStamp requests so far.
RECURSIVE MoveLoop(_, _, _, _)
MoveLoop(c, res, travelled, acc) ==
  IF res + (c.dist - travelled) >= c.spacing /\ c.dist > 0
    THEN LET needed == c.spacing - res
             tr == travelled + needed
             ratioNum == Min(c.dist, Max(0, tr))
             sx == c.lastX + ((c.x - c.lastX) * ratioNum) \div c.dist
             sy == c.lastY + ((c.y - c.lastY) * ratioNum) \div c.dist
             stampDt == (c.dt * needed * ONE) \div Max(c.dist, c.spacing)
         IN  MoveLoop(c, 0, tr,
                      Append(acc, [x |-> sx, y |-> sy, distance |-> needed,
                                   dtMs |-> stampDt, dirX |-> c.dirX,
                                   dirY |-> c.dirY, kind |-> "move"]))
    ELSE [stamps |-> acc, residual |-> res, travelled |-> travelled]

\* ------------------------------------------------------------------------
\* Inputs explored
\* ------------------------------------------------------------------------

\* silhouettes: everything inside, nothing inside, and one with the first
\* column and the last cell outside
MaskFull == [i \in Cells |-> 1]
MaskEmpty == [i \in Cells |-> 0]
MaskPart == [i \in Cells |-> IF i % N = 0 \/ i = N * N - 1 THEN 0 ELSE 1]
Masks == {MaskFull, MaskEmpty, MaskPart}

\* layer lists (id, eraseRate, baseRadius): two layers with the catalog's
\* erase rates, a single layer, and a list with an eraseRate of 0.  The base
\* radii are scaled to the small grid.
LayersBoth ==
  << [id |-> "mold", eraseRate |-> 1000, baseRadius |-> 100],
     [id |-> "grease", eraseRate |-> 600, baseRadius |-> 150] >>
LayersGrease == << [id |-> "grease", eraseRate |-> 1000, baseRadius |-> 120] >>
LayersInert == << [id |-> "mold", eraseRate |-> 0, baseRadius |-> 100] >>
LayersSlow ==
  << [id |-> "mold", eraseRate |-> 600, baseRadius |-> 150],
     [id |-> "grease", eraseRate |-> 900, baseRadius |-> 155] >>
LayerLists == {LayersBoth, LayersGrease, LayersInert, LayersSlow}

Variants == {"thickness", "threshold"}

\* target-coverage maps: all zero, in range, out of range, a missing key
Coverages ==
  { [mold |-> 0, grease |-> 0],
    [mold |-> 600, grease |-> 1500],
    [mold |-> 1000, grease |-> -500],
    [grease |-> 300] }

\* stamp inputs: every combination of these, and a few with a negative
\* strength, a NaN coordinate, or a strength above 1
UVs == {-200, 500, 1000}
Strengths == {0, 400, 1000}
RadiusFactors == {-1000, 1200}
StampInputs ==
  { << u, v, s, r >> : u \in UVs, v \in UVs, s \in Strengths, r \in RadiusFactors }
    \cup { << 500, 500, -1000, 1200 >>, << NaN, 500, 1000, 1200 >>,
           << 1000, NaN, 400, -1000 >> }
    \cup { << 500, 500, 2000, 1200 >>, << 500, 500, 2000, -1000 >>,
           << 1000, -200, 2000, 0 >> }
    \cup { << 1500, 500, 400, -1000 >>, << NaN, 1500, 1000, -1000 >> }

\* ------------------------------------------------------------------------
\* State
\* ------------------------------------------------------------------------

VARIABLES
  variant,      \* which init the engine was built with
  mask,         \* DirtSystem.mask
  layers,       \* DirtSystem.layers
  insideCount,  \* DirtSystem.insideCount
  maps,         \* DirtSystem.maps: the contents of each layer's array
  arrays,       \* DirtSystem.maps: which array object each layer id is bound to
  scratchA,     \* DirtSystem.scratchA
  scratchB,     \* DirtSystem.scratchB
  rng,          \* state of the RNG last handed to init
  prev,         \* history: maps before the last operation
  lastOp,       \* history: the last operation and its arguments
  ops,          \* history: number of operations so far
  \* a second engine built on the same mask and layer list
  maps2, scratchA2, scratchB2, rng2,
  gens,         \* generators built on their own: seed, state and outputs of each
  \* the stroke converter (StrokeSystem) and the tool it was built with
  strokeKind,   \* "flag": systems/StrokeSystem.ts, "plain": the rewrite without `active`
  tool,         \* StrokeSystem.tool
  active, lastX, lastY, lastT, residual, stamped, lastDirX, lastDirY,
  fracs,        \* the stream StrokeSystem.rng.frac() yields, fixed by its seed
  draws,        \* number of frac() draws so far
  lastResult,   \* history: what didStampSinceLastCheck() last returned
  unread,       \* history: a stamp was placed since the flag was last read
  expected,     \* history: `unread` at the last didStampSinceLastCheck()
  placed,       \* history: the stamps placed since the last handleDown
  path,         \* history: the calls made since the last handleDown
  calls,        \* history: number of converter calls so far
  isDown,       \* InputService.isDown: a pointer is held down
  inputActive,  \* InputController.inputActive
  \* the game scene's texture refresh
  overlayDirty, \* GameScene.overlayDirty
  texture,      \* the maps last handed to dirtRenderer.updateTexture
  \* the game context and the input lock
  ctxSeed,      \* GameContext.state.seed
  won,          \* GameContext.state.won
  locked,       \* InputController.locked
  wins,         \* history: WIN events emitted since the level was last initialised
  wonBefore,    \* history: a WIN event was emitted in an earlier level
  levels,       \* history: number of RESTART and NEXT events handled
  levelMaps,    \* history: the maps right after the first init with the current seed
  listeners,    \* EventBus.listeners: event -> set of stored functions
  binds,        \* history: number of functions handler.bind() has made
  invoked,      \* history: how often the last emit invoked each handler
  busOp,        \* history: the last EventBus call and the number of calls
  subs,         \* history: per event and handler, "on" or "off" was called last
  activeTool,   \* ToolManager.activeTool
  toolActive,   \* BaseTool.active of every tool
  toolLog,      \* history: lifecycle calls the last ToolManager call made
  mgrOp,        \* history: the last ToolManager call
  \* the input layer between the pointer events and the tool
  inputKind,    \* which class it is: InputController, InputHandler, InputService
  activePointerId, \* InputHandler.activePointerId, InputService.activePointerId
  pressed,      \* the pointers held down
  delivered,    \* history: the samples handed on, in order
  reached,      \* history: the calls a tool acted on, in order
  inputOp,      \* history: the last call of the input layer or the manager, the number of calls and of lock() calls
  wash,         \* PowerWashTool: isStreaming, hasHit, timeSinceLastTick, the aim
  washOp        \* history: the last PowerWashTool call and the stamps it applied

dirtVars == << variant, mask, layers, insideCount, maps, arrays, scratchA, scratchB,
               rng, prev, lastOp, ops >>
twinVars == << maps2, scratchA2, scratchB2, rng2 >>
strokeVars == << strokeKind, tool, active, lastX, lastY, lastT, residual,
                 stamped, lastDirX, lastDirY, fracs, draws, lastResult,
                 unread, expected, placed, path, calls, isDown, inputActive >>
sceneVars == << overlayDirty, texture >>
gameVars == << ctxSeed, won, locked, wins, wonBefore, levels, levelMaps >>

busVars == << listeners, binds, invoked, busOp, subs >>
managerVars == << activeTool, toolActive, toolLog, mgrOp >>
inputVars == << inputKind, activePointerId, pressed, delivered, reached,
               inputOp >>
washVars == << wash, washOp >>
uiVars == << busVars, managerVars, inputVars, washVars >>
vars == << dirtVars, twinVars, gens, strokeVars, sceneVars, gameVars, uiVars >>

NoOp == [name |-> "new", u |-> 0, v |-> 0, strength |-> 0,
         radiusFactor |-> 0, seed |-> 0, coverage |-> << >>]

\* new DirtSystem(size, layers, silhouette)
DirtNew ==
  /\ variant \in Variants
  /\ mask \in Masks
  /\ layers \in LayerLists
  /\ insideCount = CountInside(mask)
  /\ maps = [id \in LayerIds |-> ZeroGrid]
  /\ arrays = NewArrays
  /\ scratchA = ZeroGrid
  /\ scratchB = ZeroGrid
  /\ rng = RNG_new(0)
  /\ prev = maps
  /\ lastOp = NoOp
  /\ ops = 0

\* the second engine: new DirtSystem(size, layers, silhouette) again
TwinNew ==
  /\ maps2 = [id \in LayerIds |-> ZeroGrid]
  /\ scratchA2 = ZeroGrid
  /\ scratchB2 = ZeroGrid
  /\ rng2 = RNG_new(0)

\* tool configurations (spacing in px, jitter and strength: fixed point)
ToolPlain == [spacing |-> 3 * ONE, jitter |-> 0, strength |-> 1000, speedBoost |-> FALSE]
ToolJitter == [spacing |-> 2 * ONE, jitter |-> 80, strength |-> 400, speedBoost |-> TRUE]
ToolDense == [spacing |-> 0, jitter |-> 0, strength |-> 400, speedBoost |-> FALSE]
Tools == {ToolPlain, ToolJitter, ToolDense}

\* "flag": systems/StrokeSystem.ts; "plain": the rewrite without `active`;
\* "timeless": the rewrite without `active` and without timestamps, which
\* has reset()
StrokeKinds == {"flag", "plain", "timeless"}

\* streams of rng.frac() values, repeated cyclically: the generator is seeded
\* from the scene clock, so which stream it yields is not known
FracStreams == {<< 0, 999 >>, << 999, 500, 0 >>}

\* new StrokeSystem(scene, tool, dirt, worldToUV, onStamp): the field
\* initialisers
StrokeNew ==
  /\ strokeKind \in StrokeKinds
  /\ tool \in Tools
  /\ active = FALSE
  /\ lastX = 0 /\ lastY = 0 /\ lastT = 0
  /\ residual = 0
  /\ stamped = FALSE
  /\ lastDirX = 0 /\ lastDirY = -ONE
  /\ fracs \in IF tool.jitter > 0 THEN FracStreams ELSE {<< 0, 999 >>}
  /\ draws = 0
  /\ lastResult = FALSE
  /\ unread = FALSE
  /\ expected = FALSE
  /\ placed = << >>
  /\ path = << >>
  /\ calls = 0
  /\ isDown = FALSE
  /\ inputActive = FALSE

\* the scene before create(): nothing was handed to the renderer
SceneNew ==
  /\ overlayDirty = FALSE
  /\ texture = [id \in LayerIds |-> ZeroGrid]

\* GameScene: DEFAULT_COVERAGE and a seed of the range Math.max(1, now & 0xffff)
DEFAULT_COVERAGE == [mold |-> ONE, grease |-> ONE]
SceneSeed == 42

\* new GameContext(seed, coverage); new InputController(tilt, tool)
GameNew ==
  /\ ctxSeed = SceneSeed
  /\ won = FALSE
  /\ locked = FALSE
  /\ wins = 0
  /\ wonBefore = FALSE
  /\ levels = 0

\* the tools a ToolManager switches between, and no tool
ToolIds == {"scrub", "powerWash"}
NoTool == "none"

\* the events, handler functions and `this` contexts given to the EventBus;
\* NoContext is a call without the third argument
Events == {"RESTART", "NEXT"}
Handlers == {"handleRestart", "handleNext"}
NoContext == "none"
Contexts == {NoContext, "scene"}
NoBusOp == [name |-> "none", event |-> "none", handler |-> "none", n |-> 0]

\* new EventBus()
BusNew ==
  /\ listeners = [x \in {} |-> {}]
  /\ binds = 0
  /\ invoked = [h \in Handlers |-> 0]
  /\ busOp = NoBusOp
  /\ subs = [eh \in Events \X Handlers |-> "never"]

\* new ToolManager() and tools as BaseTool constructs them
ManagerNew ==
  /\ activeTool = NoTool
  /\ toolActive = [t \in ToolIds |-> FALSE]
  /\ toolLog = << >>
  /\ mgrOp = [name |-> "none", tool |-> NoTool, was |-> NoTool]

\* the classes that stand between the pointer events and the tool:
\* InputController (fed by the scene's InputService callbacks), InputHandler,
\* and the two versions of InputService, the one that tracks the id of the
\* pointer that pressed and the one that listens to pointer 0
InputKinds == {"controller", "handler", "service", "service0"}

\* pointer ids: the mouse is pointer 0, touches are 1 and up
Pointers == {0, 1}
NoPointer == -1

NoInputOp == [name |-> "none", id |-> NoPointer, n |-> 0, locks |-> 0]

\* new PowerWashTool(...): the field initialisers
\* (tickRate: powerWashConfig.tickRate, 20 in the catalog)
WashNew ==
  [isStreaming |-> FALSE, hasHit |-> FALSE, timeSinceLastTick |-> 0,
   streamStartX |-> 0, streamTargetX |-> 0, streamHitX |-> 0,
   tickRate |-> 20]

\* tick rates a PowerWashTool is configured with: the interval is a whole
\* number of ms, or not
TickRates == {20, 30}

NoWashOp == [name |-> "none", stamps |-> 0, deltaMs |-> 0, n |-> 0]

\* new InputController(tilt, tool), new InputHandler(scene, getActiveTool,
\* tilt), new InputService(scene); no pointer is down
InputNew ==
  /\ inputKind \in InputKinds
  /\ activePointerId = NoPointer
  /\ pressed = {}
  /\ delivered = << >>
  /\ reached = << >>
  /\ inputOp = NoInputOp
  /\ wash \in {[WashNew EXCEPT !.tickRate = r] : r \in TickRates}
  /\ washOp = NoWashOp

\* the game scene builds an InputController
UiNew ==
  /\ BusNew /\ ManagerNew /\ InputNew
  /\ inputKind = "controller"
  /\ wash = WashNew

\* In the engine's specification the converter is not exercised: one
\* configuration of it stands by.
StrokeIdle ==
  /\ StrokeNew
  /\ strokeKind = "flag"
  /\ tool = ToolPlain

\* no generator besides the one handed to init
GensNone == gens = << >>

Init ==
  /\ DirtNew /\ TwinNew /\ StrokeIdle /\ SceneNew /\ GensNone
  /\ GameNew /\ levelMaps = maps /\ UiNew

\* rng = new RNG(seed); dirt.init(rng, coverage)
DirtInit(seed, coverage) ==
  /\ ops < MaxOps
  /\ \E e \in { InitLayers(variant, mask, insideCount, layers, coverage, 1,
                             [maps |-> maps, arrays |-> arrays, scratchA |-> scratchA,
                              scratchB |-> scratchB, rng |-> RNG_new(seed)]) } :
        /\ maps' = e.maps
        /\ arrays' = e.arrays
        /\ scratchA' = e.scratchA
        /\ scratchB' = e.scratchB
        /\ rng' = e.rng
  /\ prev' = maps
  /\ lastOp' = [NoOp EXCEPT !.name = "init", !.seed = seed,
                            !.coverage = coverage]
  /\ ops' = ops + 1
  /\ UNCHANGED << variant, mask, layers, insideCount, twinVars, gens, strokeVars,
                  sceneVars, gameVars, uiVars >>

\* dirt.applyStampUV(u, v, strength, radiusFactor): its effect on the engine
StampStep(u, v, strength, radiusFactor) ==
  /\ maps' = applyStampUV(maps, mask, layers, u, v, strength, radiusFactor)
  /\ prev' = maps
  /\ lastOp' = [NoOp EXCEPT !.name = "stamp", !.u = u, !.v = v,
                            !.strength = strength,
                            !.radiusFactor = radiusFactor]
  /\ UNCHANGED << variant, mask, layers, insideCount, arrays, scratchA, scratchB, rng,
                  twinVars, gens, strokeVars, sceneVars, gameVars, uiVars >>

\* dirt.applyStampUV(u, v, strength, radiusFactor)
DirtStamp(u, v, strength, radiusFactor) ==
  /\ ops < MaxOps
  /\ StampStep(u, v, strength, radiusFactor)
  /\ ops' = ops + 1

Next ==
  \/ \E seed \in Seeds, coverage \in Coverages : DirtInit(seed, coverage)
  \/ \E in \in StampInputs : DirtStamp(in[1], in[2], in[3], in[4])

Spec == Init /\ [][Next]_vars

\* The threshold init on its own: an engine of one layer, so that scratchA
\* holds the blurred noise the layer's threshold was searched in, initialised
\* from more seeds and with targets below, at and above 1.
ThresholdSeeds == {42, 43, 53, 55}
ThresholdTargets == {300, 500, 700, ONE, 1500}

InitThreshold ==
  /\ Init
  /\ variant = "threshold"
  /\ mask \in {MaskFull, MaskPart}
  /\ layers \in {LayersInert, LayersGrease}

NextThreshold ==
  \E seed \in ThresholdSeeds, target \in ThresholdTargets :
    DirtInit(seed, [mold |-> target, grease |-> target])

SpecThreshold == InitThreshold /\ [][NextThreshold]_vars

\* The box blur on its own: applyBoxBlur(buffer, scratchB) on buffers of
\* zeros and ones in every arrangement and on the noise init fills in, the
\* scratch array holding what the call before left in it.
BlurInputs ==
  [Cells -> {0, ONE}]
    \cup {FillNoise1(0, RNG_new(seed), ZeroGrid).buf : seed \in Seeds}

BoxBlur(buffer) ==
  /\ ops < MaxOps
  /\ \E r \in { applyBoxBlur(buffer, scratchB) } :
        /\ scratchA' = r.buffer
        /\ scratchB' = r.temp
  /\ lastOp' = [name |-> "blur", buffer |-> buffer]
  /\ ops' = ops + 1
  /\ UNCHANGED << variant, mask, layers, insideCount, maps, arrays, rng, prev,
                  twinVars, gens, strokeVars, sceneVars, gameVars, uiVars >>

InitBlur ==
  /\ Init
  /\ variant = "threshold"
  /\ mask = MaskFull
  /\ layers = LayersBoth

NextBlur == \E buffer \in BlurInputs : BoxBlur(buffer)

SpecBlur == InitBlur /\ [][NextBlur]_vars

\* Two engines built and initialised alike, then stamped with the same two
\* stamps, the first engine in one order and the second in the other.
CommuteStamps ==
  { << 500, 500, 400, 1200 >>, << 500, 500, 1000, -1000 >>,
    << -200, 500, 1000, 1200 >>, << 1000, 1000, 400, 1200 >>,
    << 500, 500, 2000, 1200 >>, << 500, 500, -1000, 1200 >> }

\* full coverage, and a target in range with one out of range
CommuteCoverages == {DEFAULT_COVERAGE, [mold |-> 600, grease |-> 1500]}

InitCommute ==
  /\ variant = "thickness"
  /\ mask = MaskPart
  /\ layers \in {LayersBoth, LayersSlow}
  /\ insideCount = CountInside(mask)
  /\ \E seed \in Seeds, coverage \in CommuteCoverages :
       \E e \in { InitLayers(variant, mask, insideCount, layers, coverage, 1,
                             [maps |-> [id \in LayerIds |-> ZeroGrid],
                              arrays |-> NewArrays,
                              scratchA |-> ZeroGrid, scratchB |-> ZeroGrid,
                              rng |-> RNG_new(seed)]) } :
         /\ maps = e.maps /\ maps2 = e.maps
         /\ arrays = e.arrays
         /\ scratchA = e.scratchA /\ scratchA2 = e.scratchA
         /\ scratchB = e.scratchB /\ scratchB2 = e.scratchB
         /\ rng = e.rng /\ rng2 = e.rng
         /\ lastOp = [name |-> "init", seed |-> seed, coverage |-> coverage]
  /\ prev = maps
  /\ ops = 0
  /\ StrokeIdle /\ SceneNew /\ GensNone /\ GameNew /\ UiNew
  /\ levelMaps = maps

\* applyStampUV(a) and then applyStampUV(b), on the maps mps
StampTwice(mps, a, b) ==
  applyStampUV(applyStampUV(mps, mask, layers, a[1], a[2], a[3], a[4]),
               mask, layers, b[1], b[2], b[3], b[4])

\* the first engine is stamped with a, then b; the second with b, then a
StampPair(a, b) ==
  /\ ops < MaxOps
  /\ maps' = StampTwice(maps, a, b)
  /\ maps2' = StampTwice(maps2, b, a)
  /\ prev' = maps
  /\ lastOp' = [name |-> "pair", first |-> a, second |-> b]
  /\ ops' = ops + 1
  /\ UNCHANGED << variant, mask, layers, insideCount, arrays, scratchA,
                  scratchB, rng, scratchA2, scratchB2, rng2, gens, strokeVars,
                  sceneVars, gameVars, uiVars >>

NextCommute == \E a \in CommuteStamps, b \in CommuteStamps : StampPair(a, b)

SpecCommute == InitCommute /\ [][NextCommute]_vars

\* Two engines on the same mask and layer list.  TwinInit initialises both,
\* each from its own RNG built from the same seed; the other steps act on the
\* first engine only, so the two have different histories.
TwinInit(seed, coverage) ==
  /\ ops < MaxOps
  /\ \E e1 \in { InitLayers(variant, mask, insideCount, layers, coverage, 1,
                              [maps |-> maps, arrays |-> arrays, scratchA |-> scratchA,
                               scratchB |-> scratchB, rng |-> RNG_new(seed)]) } :
        /\ maps' = e1.maps
        /\ arrays' = e1.arrays
        /\ scratchA' = e1.scratchA
        /\ scratchB' = e1.scratchB
        /\ rng' = e1.rng
  /\ \E e2 \in { InitLayers(variant, mask, insideCount, layers, coverage, 1,
                              [maps |-> maps2, arrays |-> NewArrays, scratchA |-> scratchA2,
                               scratchB |-> scratchB2, rng |-> RNG_new(seed)]) } :
        /\ maps2' = e2.maps
        /\ scratchA2' = e2.scratchA
        /\ scratchB2' = e2.scratchB
        /\ rng2' = e2.rng
  /\ prev' = maps
  /\ lastOp' = [NoOp EXCEPT !.name = "twin", !.seed = seed,
                            !.coverage = coverage]
  /\ ops' = ops + 1
  /\ UNCHANGED << variant, mask, layers, insideCount, gens, strokeVars,
                  sceneVars, gameVars, uiVars >>

NextTwin ==
  \/ \E seed \in Seeds, coverage \in Coverages : TwinInit(seed, coverage)
  \/ \E seed \in Seeds, coverage \in Coverages : DirtInit(seed, coverage)
  \/ \E in \in StampInputs : DirtStamp(in[1], in[2], in[3], in[4])

SpecTwin == Init /\ [][NextTwin]_vars

\* Cleaning: an engine whose layers all erase, re-initialised a bounded
\* number of times and stamped without bound.  Each stamp is centred on an
\* inside cell and has the smallest radius (one cell); its strength is the
\* tools' 1.0 or a strength so small that the stored cell value cannot
\* represent the difference.
InsideCells(m) == {i \in Cells : m[i] = 1}
CellU(i) == ((i % N) * ONE + ONE \div 2) \div N
CellV(i) == ((i \div N) * ONE + ONE \div 2) \div N
CleanStrengths == {1, 1000}
CleanRadiusFactor == -1000
CleanCoverages == {[mold |-> 1000, grease |-> 1000], [mold |-> 600, grease |-> 1500]}

InitClean ==
  /\ Init
  /\ mask = MaskPart
  /\ layers = LayersSlow

\* dirt.applyStampUV centred on cell c
CleanStamp(c, strength) ==
  /\ StampStep(CellU(c), CellV(c), strength, CleanRadiusFactor)
  /\ UNCHANGED ops

NextClean ==
  \/ \E coverage \in CleanCoverages : DirtInit(42, coverage)
  \/ \E c \in InsideCells(MaskPart), strength \in CleanStrengths :
       CleanStamp(c, strength)

\* the next operation recorded is a stamp centred on cell c; within
\* NextClean such a step is CleanStamp(c, strength)
StampRequested(c) ==
  \E strength \in CleanStrengths :
    lastOp' = [NoOp EXCEPT !.name = "stamp", !.u = CellU(c), !.v = CellV(c),
                          !.strength = strength,
                          !.radiusFactor = CleanRadiusFactor]

\* the stamping goes on: every inside cell is a stamp centre again and again
\* (the premise of the cleaning-progress property, not a guarantee of the
\* code: the stamps come from the player's pointer)
FairClean == \A c \in InsideCells(MaskPart) : WF_lastOp(StampRequested(c))

SpecClean == InitClean /\ [][NextClean]_vars /\ FairClean

\* ------------------------------------------------------------------------
\* The stroke converter driving an initialised engine
\* ------------------------------------------------------------------------

\* pointer samples: on one horizontal line of the surface.  A press is 16 ms
\* after the last sample; a move is to any of the points 16 ms later, or a
\* repeat of the last sample at the same instant; a release is where and
\* when the last sample was, or at the far end 16 ms later.
PointerXs == {0, 2 * ONE, 3 * ONE, 7 * ONE}
PointerY == 4 * ONE
FrameMs == 16
DownSamples == {<< 0, FrameMs >>, << 3 * ONE, FrameMs >>}
MoveSamples(x) == {<< px, FrameMs >> : px \in PointerXs} \cup {<< x, 0 >>}
UpSamples(x) == {<< x, 0 >>, << 7 * ONE, FrameMs >>}

\* GameScene.create(): the engine is built and initialised (reinitLevel), and
\* the converter is constructed on it
InitStroke ==
  /\ variant = "thickness"
  /\ mask = MaskPart
  /\ layers = LayersBoth
  /\ insideCount = CountInside(mask)
  /\ \E e \in { InitLayers(variant, mask, insideCount, layers,
                             DEFAULT_COVERAGE, 1,
                             [maps |-> [id \in LayerIds |-> ZeroGrid],
                              arrays |-> NewArrays,
                              scratchA |-> ZeroGrid, scratchB |-> ZeroGrid,
                              rng |-> RNG_new(SceneSeed)]) } :
        /\ maps = e.maps
        /\ arrays = e.arrays
        /\ scratchA = e.scratchA
        /\ scratchB = e.scratchB
        /\ rng = e.rng
  /\ prev = [id \in LayerIds |-> ZeroGrid]
  /\ lastOp = [NoOp EXCEPT !.name = "init", !.seed = SceneSeed,
                           !.coverage = DEFAULT_COVERAGE]
  /\ ops = 0
  /\ TwinNew
  /\ GensNone
  /\ StrokeNew
  /\ overlayDirty = FALSE
  /\ texture = maps
  /\ GameNew
  /\ UiNew
  /\ levelMaps = maps

\* dt = Math.max(0, t - this.lastT); the converter without timestamps has
\* no dt: its stamps are placed as with dt = 0
Elapsed(t) == IF strokeKind = "timeless" THEN 0 ELSE Max(0, t - lastT)

\* whether the converter processes move and up events
Live == strokeKind # "flag" \/ active

Call(op, x, y, t) == [op |-> op, x |-> x, y |-> y, t |-> t, live |-> Live]

\* what a handler that placed the requests rqs leaves in the engine and in
\* the converter's stamp bookkeeping; since is the stamps placed before
Placing(rqs, since) ==
  /\ \E st \in { PlaceAll(tool, fracs, mask, layers,
                            [maps |-> maps, draws |-> draws, placed |-> since],
                            rqs, 1) } :
        /\ maps' = st.maps
        /\ draws' = st.draws
        /\ placed' = st.placed
  /\ stamped' = (stamped \/ Len(rqs) > 0)
  /\ unread' = (unread \/ Len(rqs) > 0)
  /\ prev' = maps
  /\ lastOp' = [NoOp EXCEPT !.name = "stroke"]
  /\ UNCHANGED << variant, mask, layers, insideCount, arrays, scratchA, scratchB,
                  rng, ops, twinVars, gens, strokeKind, tool, fracs, lastResult,
                  expected, sceneVars, gameVars, uiVars >>

\* stroke.setActive(active): the scene calls it with false when the level is
\* won, reset or shut down
SetActive(b) ==
  /\ calls < MaxCalls
  /\ strokeKind = "flag"
  /\ active' = b
  /\ residual' = IF b THEN residual ELSE 0
  /\ path' = Append(path, Call("setActive", 0, 0, lastT))
  /\ calls' = calls + 1
  /\ UNCHANGED << isDown, inputActive >>
  /\ UNCHANGED << dirtVars, twinVars, gens, sceneVars, gameVars, uiVars, strokeKind, tool, lastX,
                  lastY, lastT, stamped, lastDirX, lastDirY, fracs, draws,
                  lastResult, unread, expected, placed >>

\* the scene's pointer-down handler.  On the converter with the `active`
\* flag it is stroke.setActive(true); stroke.handleDown(x, y, t); on the
\* rewrite without the flag, stroke.handleDown(x, y, t).
HandleDown(x, y, t) ==
  /\ calls < MaxCalls
  /\ active' = (strokeKind = "flag")
  /\ lastX' = x /\ lastY' = y /\ lastT' = t
  /\ residual' = 0
  /\ lastDirX' = 0 /\ lastDirY' = -ONE
  /\ Placing(<< [x |-> x, y |-> y, distance |-> 0, dtMs |-> 0, dirX |-> 0,
                dirY |-> -ONE, kind |-> "down"] >>, << >>)
  /\ path' = << Call("down", x, y, t) >>
  /\ calls' = calls + 1
  /\ isDown' = TRUE
  /\ inputActive' = TRUE

\* the residual taking up the whole segment, stamped part included
Carried_whole(res, dist, travelled) == res + dist

\* remaining = dist - travelledAlongSegment;
\* this.residual += Math.max(0, remaining)
Carried(res, dist, travelled) == res + Max(0, dist - travelled)

\* a stamp for every sample that repeats the last point
DwellDue_always(dist, dt) == dist = 0

\* if (dist === 0 && dt > 0): the pointer rests on a point while time passes
DwellDue(dist, dt) == dist = 0 /\ dt > 0

\* stroke.handleMove(x, y, t)
HandleMove(x, y, t) ==
  /\ calls < MaxCalls
  /\ path' = Append(path, Call("move", x, y, t))
  /\ calls' = calls + 1
  /\ UNCHANGED << isDown, inputActive >>
  /\ IF ~Live
       THEN UNCHANGED << dirtVars, twinVars, gens, sceneVars, gameVars, uiVars, strokeKind, tool,
                         active, lastX, lastY, lastT, residual, stamped,
                         lastDirX, lastDirY, fracs, draws, lastResult, unread,
                         expected, placed >>
       ELSE LET dx == x - lastX
                dy == y - lastY
                dist == Dist(dx, dy)
                spacing == Max(ONE, tool.spacing)
                dt == Elapsed(t)
                dirX == IF dist > 0 THEN (dx * ONE) \div dist ELSE lastDirX
                dirY == IF dist > 0 THEN (dy * ONE) \div dist ELSE lastDirY
                loop == MoveLoop([lastX |-> lastX, lastY |-> lastY, x |-> x,
                                  y |-> y, dist |-> dist, spacing |-> spacing,
                                  dt |-> dt, dirX |-> dirX, dirY |-> dirY],
                                 Min(residual, spacing), 0, << >>)
                dwell == IF DwellDue(dist, dt)
                           THEN << [x |-> x, y |-> y, distance |-> 0,
                                    dtMs |-> dt * ONE,
                                    dirX |-> lastDirX, dirY |-> lastDirY,
                                    kind |-> "dwell"] >>
                           ELSE << >>
            IN  /\ residual' = Carried(loop.residual, dist, loop.travelled)
                /\ lastX' = x /\ lastY' = y /\ lastT' = t
                /\ lastDirX' = dirX /\ lastDirY' = dirY
                /\ Placing(loop.stamps \o dwell, placed)
                /\ UNCHANGED active

\* stroke.handleUp(x, y, t)
HandleUp(x, y, t) ==
  /\ calls < MaxCalls
  /\ path' = Append(path, Call("up", x, y, t))
  /\ calls' = calls + 1
  /\ isDown' = FALSE
  /\ inputActive' = FALSE
  /\ IF ~Live
       THEN UNCHANGED << dirtVars, twinVars, gens, sceneVars, gameVars, uiVars, strokeKind, tool,
                         active, lastX, lastY, lastT, residual, stamped,
                         lastDirX, lastDirY, fracs, draws, lastResult, unread,
                         expected, placed >>
       ELSE LET dx == x - lastX
                dy == y - lastY
                dist == Dist(dx, dy)
                dt == Elapsed(t)
                dirX == IF dist > 0 THEN (dx * ONE) \div dist ELSE lastDirX
                dirY == IF dist > 0 THEN (dy * ONE) \div dist ELSE lastDirY
            IN  /\ Placing(UpRequests(x, y, dist, dt, dirX, dirY), placed)
                /\ lastDirX' = dirX /\ lastDirY' = dirY
                /\ active' = FALSE
                /\ residual' = 0
                /\ UNCHANGED << lastX, lastY, lastT >>

\* stroke.didStampSinceLastCheck()
DidStampSinceLastCheck ==
  /\ calls < MaxCalls
  /\ lastResult' = stamped
  /\ stamped' = FALSE
  /\ expected' = unread
  /\ unread' = FALSE
  /\ calls' = calls + 1
  /\ UNCHANGED << isDown, inputActive >>
  /\ UNCHANGED << dirtVars, twinVars, gens, sceneVars, gameVars, uiVars, strokeKind, tool, active,
                  lastX, lastY, lastT, residual, lastDirX, lastDirY, fracs,
                  draws, placed, path >>

\* stroke.reset(), on the converter that has it: the tool's deactivate()
\* calls it
Reset ==
  /\ calls < MaxCalls
  /\ strokeKind = "timeless"
  /\ lastX' = 0 /\ lastY' = 0
  /\ residual' = 0
  /\ stamped' = FALSE
  /\ lastDirX' = 0 /\ lastDirY' = -ONE
  /\ path' = Append(path, Call("reset", 0, 0, lastT))
  /\ calls' = calls + 1
  /\ UNCHANGED << isDown, inputActive >>
  /\ UNCHANGED << dirtVars, twinVars, gens, sceneVars, gameVars, uiVars, strokeKind, tool, active,
                  lastT, fracs, draws, lastResult, unread, expected, placed >>

NextStroke ==
  \/ SetActive(FALSE)
  \/ \E p \in DownSamples : HandleDown(p[1], PointerY, lastT + p[2])
  \/ \E p \in MoveSamples(lastX) : HandleMove(p[1], PointerY, lastT + p[2])
  \/ \E p \in UpSamples(lastX) : HandleUp(p[1], PointerY, lastT + p[2])
  \/ DidStampSinceLastCheck
  \/ Reset

SpecStroke == InitStroke /\ [][NextStroke]_vars

\* ------------------------------------------------------------------------
\* The game scene's frame loop: pointer handlers, update(), restart
\* ------------------------------------------------------------------------

\* the converters GameScene constructs: the one with the `active` flag and
\* its rewrite with timestamps
SceneKinds == {"flag", "plain"}

\* pointer samples of the frame loop
FrameDownSamples == {<< 3 * ONE, FrameMs >>}
FrameMoveSamples(x) == {<< 7 * ONE, FrameMs >>, << x, FrameMs >>}
FrameUpSamples(x) == {<< x, 0 >>}

InitFrame ==
  /\ InitStroke
  /\ strokeKind \in SceneKinds

\* update() never refreshing the texture
Refreshed_never(dirty, tex, mps) == tex

\* update(): if (overlayDirty) dirtRenderer.updateTexture(map0, map1) with
\* the maps getMapsForShader() returns
Refreshed(dirty, tex, mps) == IF dirty THEN mps ELSE tex

\* GameScene.update(time, delta): stroke.didStampSinceLastCheck() sets
\* overlayDirty, and a dirty overlay is refreshed from the engine's maps
Update ==
  /\ lastResult' = stamped
  /\ stamped' = FALSE
  /\ expected' = unread
  /\ unread' = FALSE
  /\ texture' = Refreshed(overlayDirty \/ stamped, texture, maps)
  /\ overlayDirty' = FALSE
  /\ prev' = maps
  /\ lastOp' = [NoOp EXCEPT !.name = "update"]
  /\ UNCHANGED << variant, mask, layers, insideCount, arrays, maps, scratchA, scratchB,
                  rng, ops, twinVars, gens, strokeKind, tool, active, lastX, lastY,
                  lastT, residual, lastDirX, lastDirY, fracs, draws, placed,
                  path, calls, isDown, inputActive, gameVars, uiVars >>

\* GameScene.reinitLevel (restart, next level): the engine is initialised
\* again, its maps are handed to the renderer, and the converter with the
\* flag is deactivated
Reinit ==
  /\ calls < MaxCalls
  /\ \E e \in { InitLayers(variant, mask, insideCount, layers,
                             DEFAULT_COVERAGE, 1,
                             [maps |-> maps, arrays |-> arrays, scratchA |-> scratchA,
                              scratchB |-> scratchB,
                              rng |-> RNG_new(SceneSeed)]) } :
        /\ maps' = e.maps
        /\ arrays' = e.arrays
        /\ scratchA' = e.scratchA
        /\ scratchB' = e.scratchB
        /\ rng' = e.rng
        /\ texture' = e.maps
  /\ overlayDirty' = FALSE
  /\ active' = FALSE
  /\ residual' = IF strokeKind = "flag" THEN 0 ELSE residual
  /\ prev' = maps
  /\ lastOp' = [NoOp EXCEPT !.name = "init", !.seed = SceneSeed,
                            !.coverage = DEFAULT_COVERAGE]
  /\ path' = Append(path, Call("reinit", 0, 0, lastT))
  /\ calls' = calls + 1
  /\ UNCHANGED << variant, mask, layers, insideCount, ops, twinVars, gens, strokeKind,
                  tool, lastX, lastY, lastT, stamped, lastDirX, lastDirY,
                  fracs, draws, lastResult, unread, expected, placed,
                  isDown, inputActive, gameVars, uiVars >>

NextFrame ==
  \/ \E p \in FrameDownSamples : HandleDown(p[1], PointerY, lastT + p[2])
  \/ \E p \in FrameMoveSamples(lastX) : HandleMove(p[1], PointerY, lastT + p[2])
  \/ \E p \in FrameUpSamples(lastX) : HandleUp(p[1], PointerY, lastT + p[2])
  \/ Update
  \/ Reinit

\* Phaser calls the scene's update() on every frame
FairFrame == WF_vars(Update)

SpecFrame == InitFrame /\ [][NextFrame]_vars /\ FairFrame

\* ------------------------------------------------------------------------
\* The game scene with GameContext, InputService and InputController: pointer
\* events, the progress timer, RESTART and NEXT.  The scene builds the
\* converter without the `active` flag.
\* ------------------------------------------------------------------------

\* a silhouette of one row, which a drag along the pointer's row can clean
MaskRow == [i \in Cells |-> IF i \div N = 1 THEN 1 ELSE 0]

\* GameScene.create() up to and including its first reinitLevel()
InitScene ==
  /\ variant = "thickness"
  /\ mask = MaskRow
  /\ layers = LayersGrease
  /\ insideCount = CountInside(mask)
  /\ \E e \in { InitLayers(variant, mask, insideCount, layers,
                             DEFAULT_COVERAGE, 1,
                             [maps |-> [id \in LayerIds |-> ZeroGrid],
                              arrays |-> NewArrays,
                              scratchA |-> ZeroGrid, scratchB |-> ZeroGrid,
                              rng |-> RNG_new(SceneSeed)]) } :
        /\ maps = e.maps
        /\ arrays = e.arrays
        /\ scratchA = e.scratchA
        /\ scratchB = e.scratchB
        /\ rng = e.rng
  /\ prev = [id \in LayerIds |-> ZeroGrid]
  /\ lastOp = [NoOp EXCEPT !.name = "init", !.seed = SceneSeed,
                           !.coverage = DEFAULT_COVERAGE]
  /\ ops = 0
  /\ TwinNew
  /\ GensNone
  /\ StrokeNew
  /\ strokeKind = "plain"
  /\ tool = ToolPlain
  /\ overlayDirty = FALSE
  /\ texture = maps
  /\ GameNew
  /\ UiNew
  /\ levelMaps = maps

\* the input layer never declining an event
Blocked_never(w, l) == FALSE

\* an event is declined: by the scene's callback when gameContext.isWon(),
\* by InputController when locked
Blocked(w, l) == w \/ l

\* a pointer event that was declined: nothing but the InputService's own
\* isDown changes
Declined(down) ==
  /\ isDown' = down
  /\ prev' = maps
  /\ lastOp' = [NoOp EXCEPT !.name = "declined"]
  /\ UNCHANGED << variant, mask, layers, insideCount, maps, arrays, scratchA,
                  scratchB, rng, ops, twinVars, gens, strokeKind, tool, active,
                  lastX, lastY, lastT, residual, stamped, lastDirX, lastDirY,
                  fracs, draws, lastResult, unread, expected, placed, path,
                  calls, inputActive, sceneVars, gameVars, uiVars >>

\* InputService.handleDown, the scene's onDown callback,
\* InputController.handleDown
PointerDown ==
  /\ ~isDown
  /\ IF Blocked(won, locked)
       THEN Declined(TRUE)
       ELSE \E p \in FrameDownSamples : HandleDown(p[1], PointerY, lastT + p[2])

\* InputService.handleMove, the scene's onMove callback,
\* InputController.handleMove
PointerMove ==
  /\ isDown
  /\ IF Blocked(won, locked)
       THEN Declined(TRUE)
       ELSE \E p \in FrameMoveSamples(lastX) :
              HandleMove(p[1], PointerY, lastT + p[2])

\* InputService.handleUp, the scene's onUp callback, InputController.handleUp
PointerUp ==
  /\ isDown
  /\ IF Blocked(won, locked)
       THEN Declined(FALSE)
       ELSE \E p \in FrameUpSamples(lastX) :
              HandleUp(p[1], PointerY, lastT + p[2])

\* the timer's test without the look at gameContext.isWon()
WinDue_again(w, clean) == clean

\* if (!this.gameContext.isWon() && cleanPercent >= 95)
WinDue(w, clean) == ~w /\ clean

\* cleanPercent >= 95 with cleanPercent = (1 - dirty / insideCount) * 100,
\* compared exactly; getUnionDirtyRatio() is 0 without inside cells
CleanEnough(mps, m, inside) ==
  inside = 0 \/ 100 * (inside - UnionDirtyCount(mps, m, EPS)) >= 95 * inside

\* the progress timer's callback every 200 ms: it emits PROGRESS and, when
\* the level is not won yet and clean enough, handleWin(): setWon(),
\* inputController.lock() and the WIN event.  lock() ends an interaction in
\* progress with tool.deactivate(), which clears the converter's stroke and
\* applies no stamp.
ProgressTick ==
  /\ prev' = maps
  /\ lastOp' = [NoOp EXCEPT !.name = "tick"]
  /\ IF WinDue(won, CleanEnough(maps, mask, insideCount))
       THEN /\ won' = TRUE
            /\ locked' = TRUE
            /\ wins' = wins + 1
            /\ inputActive' = FALSE
            /\ residual' = IF inputActive THEN 0 ELSE residual
            /\ path' = IF inputActive
                         THEN Append(path, Call("deactivate", 0, 0, lastT))
                         ELSE path
       ELSE UNCHANGED << won, locked, wins, inputActive, residual, path >>
  /\ UNCHANGED << variant, mask, layers, insideCount, maps, arrays, scratchA,
                  scratchB, rng, ops, twinVars, gens, strokeKind, tool, active,
                  lastX, lastY, lastT, stamped, lastDirX, lastDirY, fracs,
                  draws, lastResult, unread, expected, placed, calls, isDown,
                  sceneVars, ctxSeed, wonBefore, levels, levelMaps, uiVars >>

\* reinitLevel() going on with the generator of the level before
LevelRng_continue(s, old) == old

\* reinitLevel(): this.rng = new RNG(this.gameContext.getSeed())
LevelRng(s, old) == RNG_new(s)

\* gameContext.reset() or nextLevel() leaving seed s, then reinitLevel():
\* init from the level's generator, the maps handed to the renderer,
\* inputController.unlock().  The calls counted are those of one level.
LevelInit(name, s) ==
  /\ levels < MaxLevels
  /\ \E e \in { InitLayers(variant, mask, insideCount, layers,
                             DEFAULT_COVERAGE, 1,
                             [maps |-> maps, arrays |-> arrays,
                              scratchA |-> scratchA, scratchB |-> scratchB,
                              rng |-> LevelRng(s, rng)]) } :
        /\ maps' = e.maps
        /\ arrays' = e.arrays
        /\ scratchA' = e.scratchA
        /\ scratchB' = e.scratchB
        /\ rng' = e.rng
        /\ texture' = e.maps
        /\ levelMaps' = IF name = "next" THEN e.maps ELSE levelMaps
  /\ ctxSeed' = s
  /\ won' = FALSE
  /\ locked' = FALSE
  /\ inputActive' = FALSE
  /\ wonBefore' = (wonBefore \/ wins > 0)
  /\ wins' = 0
  /\ levels' = levels + 1
  /\ overlayDirty' = FALSE
  /\ prev' = maps
  /\ lastOp' = [NoOp EXCEPT !.name = name, !.seed = s,
                            !.coverage = DEFAULT_COVERAGE]
  /\ calls' = 0
  /\ UNCHANGED << variant, mask, layers, insideCount, ops, twinVars, gens,
                  strokeKind, tool, active, lastX, lastY, lastT, residual,
                  stamped, lastDirX, lastDirY, fracs, draws, lastResult,
                  unread, expected, placed, path, isDown, uiVars >>

\* GameScene.handleRestart
HandleRestart == LevelInit("restart", ctxSeed)

\* GameScene.handleNext: nextLevel() draws the seed
HandleNext == \E s \in NextSeeds : LevelInit("next", s)

NextScene ==
  \/ PointerDown
  \/ PointerMove
  \/ PointerUp
  \/ ProgressTick
  \/ HandleRestart
  \/ HandleNext

SpecScene == InitScene /\ [][NextScene]_vars

\* ------------------------------------------------------------------------
\* The EventBus and the ToolManager, each driven through its public methods.
\* A function is a record: the handler it runs, the context it is bound to
\* and, for a bound function, the number that tells it from every other
\* function (handler.bind() returns a new function on every call).
\* ------------------------------------------------------------------------

Raw(h) == [fn |-> h, ctx |-> NoContext, id |-> 0]

\* on(): boundHandler = context ? handler.bind(context) : handler,
\* n functions having been bound before
BoundHandler(h, c, n) ==
  IF c # NoContext THEN [fn |-> h, ctx |-> c, id |-> n + 1] ELSE Raw(h)

\* this.listeners.get(event), empty when the key is absent
HandlersOf(ls, e) == IF e \in DOMAIN ls THEN ls[e] ELSE {}

\* on(): the set of the event, made if absent, gains the stored function
EventBus_on(ls, e, f) ==
  [x \in DOMAIN ls \cup {e} |->
     IF x = e THEN HandlersOf(ls, e) \cup {f} ELSE ls[x]]

\* off(): handlers.delete(handler), and the key goes with the last handler
EventBus_off(ls, e, f) ==
  IF e \notin DOMAIN ls
    THEN ls
    ELSE IF ls[e] \ {f} = {}
           THEN [x \in DOMAIN ls \ {e} |-> ls[x]]
           ELSE [x \in DOMAIN ls |-> IF x = e THEN ls[e] \ {f} ELSE ls[x]]

\* hasListeners()
hasListeners(ls, e) == e \in DOMAIN ls /\ Cardinality(ls[e]) > 0

\* one more call of the bus, which touches nothing else
BusCall ==
  /\ busOp.n < MaxBusCalls
  /\ UNCHANGED << dirtVars, twinVars, gens, strokeVars, sceneVars, gameVars,
                  managerVars, inputVars, washVars >>

\* eventBus.on(e, h) and eventBus.on(e, h, c)
BusOn(e, h, c) ==
  /\ BusCall
  /\ c # NoContext => binds < MaxBinds
  /\ listeners' = EventBus_on(listeners, e, BoundHandler(h, c, binds))
  /\ binds' = IF c # NoContext THEN binds + 1 ELSE binds
  /\ subs' = [subs EXCEPT ![<< e, h >>] = "on"]
  /\ busOp' = [name |-> "on", event |-> e, handler |-> h, n |-> busOp.n + 1]
  /\ UNCHANGED invoked

\* eventBus.off(e, h) with the handler function itself
BusOff(e, h) ==
  /\ BusCall
  /\ listeners' = EventBus_off(listeners, e, Raw(h))
  /\ subs' = [subs EXCEPT ![<< e, h >>] = IF @ = "on" THEN "off" ELSE @]
  /\ busOp' = [name |-> "off", event |-> e, handler |-> h, n |-> busOp.n + 1]
  /\ UNCHANGED << binds, invoked >>

\* eventBus.emit(e): every stored function of the event runs once
BusEmit(e) ==
  /\ BusCall
  /\ invoked' = [h \in Handlers |->
                   Cardinality({f \in HandlersOf(listeners, e) : f.fn = h})]
  /\ busOp' = [name |-> "emit", event |-> e, handler |-> "none",
               n |-> busOp.n + 1]
  /\ UNCHANGED << listeners, binds, subs >>

\* eventBus.clear(e)
BusClear(e) ==
  /\ BusCall
  /\ listeners' = [x \in DOMAIN listeners \ {e} |-> listeners[x]]
  /\ subs' = [eh \in Events \X Handlers |->
                IF eh[1] = e THEN "never" ELSE subs[eh]]
  /\ busOp' = [name |-> "clear", event |-> e, handler |-> "none",
               n |-> busOp.n + 1]
  /\ UNCHANGED << binds, invoked >>

\* eventBus.clear()
BusClearAll ==
  /\ BusCall
  /\ listeners' = [x \in {} |-> {}]
  /\ subs' = [eh \in Events \X Handlers |-> "never"]
  /\ busOp' = [name |-> "clear", event |-> "all", handler |-> "none",
               n |-> busOp.n + 1]
  /\ UNCHANGED << binds, invoked >>

LifecycleCall(c, t) == [call |-> c, tool |-> t]

\* setActiveTool() that leaves the previous tool as it is
setActiveTool_noDeactivate(cur, t) ==
  IF cur = t THEN << >> ELSE << LifecycleCall("activate", t) >>

\* the lifecycle calls of setActiveTool(t), in order, cur being active
setActiveTool(cur, t) ==
  IF cur = t
    THEN << >>
    ELSE (IF cur # NoTool THEN << LifecycleCall("deactivate", cur) >>
                          ELSE << >>)
         \o << LifecycleCall("activate", t) >>

\* the lifecycle calls of deactivateAll()
deactivateAll(cur) ==
  IF cur # NoTool THEN << LifecycleCall("deactivate", cur) >> ELSE << >>

\* BaseTool.activate() and deactivate() applied in the order of the calls
RECURSIVE Lifecycle(_, _)
Lifecycle(act, log) ==
  IF log = << >>
    THEN act
    ELSE Lifecycle([act EXCEPT ![Head(log).tool] = (Head(log).call = "activate")],
                   Tail(log))

\* a call of the manager, which touches nothing else
ManagerCall ==
  UNCHANGED << dirtVars, twinVars, gens, strokeVars, sceneVars, gameVars,
               busVars, inputVars, washVars >>

\* toolManager.setActiveTool(t)
SetActiveTool(t) ==
  /\ ManagerCall
  /\ \E log \in { setActiveTool(activeTool, t) } :
        /\ toolLog' = log
        /\ toolActive' = Lifecycle(toolActive, log)
  /\ activeTool' = t
  /\ mgrOp' = [name |-> "setActiveTool", tool |-> t, was |-> activeTool]

\* toolManager.deactivateAll()
DeactivateAll ==
  /\ ManagerCall
  /\ \E log \in { deactivateAll(activeTool) } :
        /\ toolLog' = log
        /\ toolActive' = Lifecycle(toolActive, log)
  /\ activeTool' = NoTool
  /\ mgrOp' = [name |-> "deactivateAll", tool |-> NoTool, was |-> activeTool]

\* the bus and the manager as constructed, beside an engine left alone
InitUi ==
  /\ Init
  /\ variant = "thickness"
  /\ mask = MaskFull
  /\ layers = LayersBoth

NextUi ==
  \/ \E e \in Events, h \in Handlers, c \in Contexts : BusOn(e, h, c)
  \/ \E e \in Events, h \in Handlers : BusOff(e, h)
  \/ \E e \in Events : BusEmit(e)
  \/ \E e \in Events : BusClear(e)
  \/ BusClearAll
  \/ \E t \in ToolIds : SetActiveTool(t)
  \/ DeactivateAll

SpecUi == InitUi /\ [][NextUi]_vars

\* ------------------------------------------------------------------------
\* Two generators built on their own: new RNG(seed), then next() on either
\* ------------------------------------------------------------------------

\* 0, 1, a small seed, the constant a zero seed is remapped to, 2^16, -1
GenSeeds == {0, 1, 42, 1831565813, 65536, -1}
GenNames == {"a", "b"}

\* new RNG(seed)
GenNew(seed) ==
  [seed |-> seed, start |-> RNG_new(seed), state |-> RNG_new(seed),
   outs |-> << >>]

InitRng ==
  /\ DirtNew /\ TwinNew /\ StrokeIdle /\ SceneNew
  /\ GameNew /\ levelMaps = maps /\ UiNew
  /\ variant = "thickness" /\ mask = MaskFull /\ layers = LayersBoth
  /\ gens \in [GenNames -> {GenNew(seed) : seed \in GenSeeds}]

\* generator g: next()
GenNext(g) ==
  /\ Len(gens[g].outs) < MaxDraws
  /\ \E s1 \in { RNG_advance(gens[g].state) } :
       gens' = [gens EXCEPT ![g].state = s1,
                            ![g].outs = Append(@, RNG_output(s1))]
  /\ UNCHANGED << dirtVars, twinVars, strokeVars, sceneVars, gameVars, uiVars >>

NextRng == \E g \in GenNames : GenNext(g)

SpecRng == InitRng /\ [][NextRng]_vars

\* ------------------------------------------------------------------------
\* Properties of the coverage map engine
\* ------------------------------------------------------------------------

Configured(id) == \E k \in 1 .. Len(layers) : layers[k].id = id
LayerOf(id) == layers[CHOOSE k \in 1 .. Len(layers) : layers[k].id = id]
StampedLast == lastOp.name = "stamp"
InitLast == lastOp.name = "init"
CenterCell == CellCoord(lastOp.v) * N + CellCoord(lastOp.u)
SomeDirt(mps) == \E id \in LayerIds, i \in Cells : mps[id][i] > 0

\* C1 -- Silhouette containment: in every state reached from construction by
\* init and applyStampUV calls, a cell outside the silhouette (mask 0) holds
\* coverage 0 in every layer.
C1_SilhouetteContainment ==
  \A id \in LayerIds, i \in Cells : mask[i] = 0 => maps[id][i] = 0

\* an init left dirt on a silhouette that has outside cells, and a stamp
\* centred on an outside cell followed
C1_Witness ==
  /\ StampedLast /\ lastOp.strength > 0
  /\ mask[CenterCell] = 0
  /\ SomeDirt(prev)
  /\ maps # prev

C3_StampMonotonic ==
  (StampedLast /\ lastOp.strength > 0) =>
    \A id \in LayerIds, i \in Cells :
      maps[id][i] <= prev[id][i] /\ maps[id][i] >= 0

\* a stamp of positive strength lowered one cell and left it above 0
C3_Witness ==
  /\ StampedLast /\ lastOp.strength > 0
  /\ \E id \in LayerIds, i \in Cells :
       maps[id][i] < prev[id][i] /\ maps[id][i] > 0

\* C4 -- No-op guard: applyStampUV with strength <= 0 leaves every coverage
\* grid unchanged, whatever u, v and radiusFactor are.
C4_NoOpGuard ==
  (StampedLast /\ lastOp.strength <= 0) => maps = prev

\* a stamp of strength 0 (and one of negative strength) on a dirty inside
\* centre cell
C4_Witness ==
  /\ StampedLast /\ lastOp.strength <= 0
  /\ mask[CenterCell] = 1
  /\ \E id \in LayerIds : Configured(id) /\ LayerOf(id).eraseRate > 0
                            /\ maps[id][CenterCell] > 0

\* squared distance, in cells, of cell i from the centre cell of the last stamp
DistSqFromCenter(i) ==
  LET dx == (i % N) - CellCoord(lastOp.u)
      dy == (i \div N) - CellCoord(lastOp.v)
  IN  dx * dx + dy * dy

\* max(1, 10 * baseRadius * max(0.2, radiusFactor)), fixed point
EffectiveRadius(baseRadius, radiusFactor) ==
  LET f == IF radiusFactor < 200 THEN 200 ELSE radiusFactor
      r == (10 * baseRadius * f) \div ONE
  IN  IF r < ONE THEN ONE ELSE r

C5_StampLocal ==
  StampedLast =>
    \A id \in LayerIds, i \in Cells :
      maps[id][i] # prev[id][i] =>
        /\ mask[i] = 1
        /\ Configured(id)
        /\ LET r == EffectiveRadius(LayerOf(id).baseRadius, lastOp.radiusFactor)
           IN  DistSqFromCenter(i) * ONE * ONE < r * r

\* C5 -- Stamp locality: applyStampUV changes, in each layer, only cells
\* inside the silhouette at distance strictly less than that layer's
\* effective radius from the centre cell; the mask is never modified.
C5_StampLocality == [](C5_StampLocal) /\ [][mask' = mask]_vars

\* a stamp changed the centre but left a dirty inside cell of the same layer
\* untouched, and changed a neighbour in another layer
C5_Witness ==
  /\ StampedLast
  /\ \E id \in LayerIds, i \in Cells, j \in Cells :
       /\ i # j /\ mask[i] = 1 /\ mask[j] = 1
       /\ maps[id][i] # prev[id][i]
       /\ maps[id][j] = prev[id][j] /\ prev[id][j] > 0
  /\ \E id \in LayerIds, i \in Cells :
       i # CenterCell /\ maps[id][i] # prev[id][i]

\* getUnionDirtyRatio() with the default eps
Ratio(mps) == getUnionDirtyRatio(mps, mask, insideCount, EPS)

\* every configured layer's target is 0 (given as 0 or left out)
AllTargetsZero(coverage) ==
  \A k \in 1 .. Len(layers) :
    layers[k].id \in DOMAIN coverage => coverage[layers[k].id] = 0

\* C7 -- Union ratio bounds: getUnionDirtyRatio() is in [0, 1]; it is 0 when
\* the silhouette has no inside cell, and 0 right after an init whose
\* targets are all 0.
C7_UnionRatioBounds ==
  /\ Ratio(maps) >= 0 /\ Ratio(maps) <= ONE
  /\ (\A i \in Cells : mask[i] = 0) => Ratio(maps) = 0
  /\ (InitLast /\ AllTargetsZero(lastOp.coverage)) => Ratio(maps) = 0

\* an init with all targets 0 on an engine whose ratio was above 0
C7_Witness ==
  /\ InitLast /\ AllTargetsZero(lastOp.coverage)
  /\ getUnionDirtyRatio(prev, mask, insideCount, EPS) > 0

\* C6 -- Determinism: two engines on the same mask and layer list, each
\* initialised from an RNG built from the same seed with the same targets,
\* hold identical coverage grids in every layer, whatever either engine did
\* before; and the two RNGs, having produced the same draws, are in the same
\* state.
C6_Determinism ==
  lastOp.name = "twin" =>
    /\ maps = maps2
    /\ rng = rng2
    /\ SomeDirt(maps) => (scratchA = scratchA2 /\ scratchB = scratchB2)

\* both engines were initialised to a dirty grid after the first one alone
\* had been initialised to a different one
C6_Witness ==
  /\ lastOp.name = "twin"
  /\ SomeDirt(maps)
  /\ SomeDirt(prev)
  /\ prev # maps

\* the last operation was a stamp centred on cell c
StampAt(c) ==
  /\ StampedLast
  /\ CenterCell = c
  /\ lastOp.strength > 0

\* the last stamp's strength takes at least one storage step off the centre
\* cell in every layer
Effective ==
  \A k \in 1 .. Len(layers) : (lastOp.strength * layers[k].eraseRate) \div ONE >= 1

RatioNeverIncreases ==
  [][lastOp'.name = "stamp" => Ratio(maps') <= Ratio(maps)]_vars

\* C8 (as stated) -- Cleaning progress: with eraseRate > 0 on every layer, as
\* stamps of strength > 0 keep being applied so that every inside cell is
\* repeatedly a stamp centre, getUnionDirtyRatio() never increases from one
\* stamp to the next, eventually reaches 0 and stays 0.
C8_AnyStrength ==
  /\ RatioNeverIncreases
  /\ (\A c \in InsideCells(MaskPart) : []<>StampAt(c)) => <>[](Ratio(maps) = 0)

\* C8 (amended) -- Cleaning progress: with eraseRate > 0 on every layer, as
\* stamps whose strength takes at least one storage step off their centre cell
\* keep being applied so that every inside cell is repeatedly the centre of
\* such a stamp, getUnionDirtyRatio() never increases from one stamp to the
\* next, eventually reaches 0 and stays 0 (until the next init; there are
\* finitely many).
C8_CleaningProgress ==
  /\ RatioNeverIncreases
  /\ (\A c \in InsideCells(MaskPart) : []<>(StampAt(c) /\ Effective))
       => <>[](Ratio(maps) = 0)

\* a stamp took the ratio from above 0 to 0
C8_Witness ==
  /\ StampedLast /\ Effective
  /\ Ratio(prev) > 0
  /\ Ratio(maps) = 0

\* ------------------------------------------------------------------------
\* Properties of the stroke converter
\* ------------------------------------------------------------------------

\* the calls since the last handleDown are that handleDown and then only
\* handleMove samples, each further along the line than the one before
StraightDrag ==
  /\ Len(path) >= 2
  /\ path[1].op = "down"
  /\ \A k \in 2 .. Len(path) :
       /\ path[k].op = "move"
       /\ path[k].y = path[1].y
       /\ path[k].x > path[k - 1].x

\* the stamps the moves placed, in order
MoveStamps == SelectSeq(placed, LAMBDA p : p.kind # "down")

DragLength == path[Len(path)].x - path[1].x
Spacing == Max(ONE, tool.spacing)

PressThenMoves(n) ==
  /\ n >= 1 /\ Len(path) >= n
  /\ path[1].op = "down"
  /\ \A k \in 2 .. n : path[k].op = "move"

LastCall == path[Len(path)]

Abs(a) == IF a < 0 THEN -a ELSE a

\* C11 -- Stroke state machine idle -> dragging -> idle driven by down/up
\* events alone: after handleDown a handleMove covering at least one spacing
\* places at least one stamp; handleUp places one final stamp at the end
\* point and resets the residual to 0; a handleMove after handleUp, with no
\* new handleDown, places no stamp.
C11_StateMachine ==
  /\ ( /\ Len(path) = 2 /\ PressThenMoves(2)
       /\ Abs(path[2].x - path[1].x) >= Spacing )
     => \E k \in 1 .. Len(placed) : placed[k].kind = "move"
  /\ ( /\ Len(path) >= 2 /\ PressThenMoves(Len(path) - 1)
       /\ LastCall.op = "up" )
     => /\ placed # << >>
        /\ placed[Len(placed)].kind = "up"
        /\ placed[Len(placed)].x = LastCall.x
        /\ placed[Len(placed)].y = LastCall.y
        /\ residual = 0
  /\ ( /\ Len(path) >= 3 /\ PressThenMoves(Len(path) - 2)
       /\ path[Len(path) - 1].op = "up"
       /\ LastCall.op = "move" )
     => placed[Len(placed)].kind = "up"

\* on the converter with the `active` flag: a press, a release, and a move
\* of a spacing or more that placed nothing
C11_Witness ==
  /\ strokeKind = "flag"
  /\ Len(path) = 3 /\ PressThenMoves(1)
  /\ path[2].op = "up" /\ LastCall.op = "move"
  /\ Abs(path[3].x - path[2].x) >= Spacing
  /\ placed[Len(placed)].kind = "up"

\* C12 -- didStampSinceLastCheck() is a one-shot flag: it returns true iff at
\* least one stamp was placed since the previous call (or since
\* construction), and reading clears it, so a second call with no stamp in
\* between returns false; no other operation clears or sets it.
C12_OneShotFlag ==
  /\ stamped = unread
  /\ lastResult = expected

\* the flag was read as true, and read again as false with no stamp in
\* between
C12_Witness ==
  /\ strokeKind = "plain"
  /\ calls >= 3
  /\ placed # << >>
  /\ ~lastResult /\ ~expected
  /\ ~stamped

\* strength * eraseRate >= 1 for every configured layer
FullStrength ==
  \A k \in 1 .. Len(layers) :
    (lastOp.strength * layers[k].eraseRate) \div ONE >= ONE

UpdatedLast == lastOp.name = "update"

\* C14 -- Frame ordering: whenever at least one stamp was placed since the
\* previous update(), the next update() hands the renderer the maps with all
\* of those stamps applied; the renderer holds the engine's maps whenever no
\* stamp is waiting for an update(); and no stamp is left without a later
\* renderer update.
C14_FrameOrdering ==
  /\ []((UpdatedLast /\ expected) => texture = maps)
  /\ [](~unread => texture = maps)
  /\ (unread ~> (UpdatedLast /\ texture = maps))

\* an update() after two handlers had placed stamps that cleared an inside
\* cell: the renderer holds the eroded maps
C14_Witness ==
  /\ UpdatedLast /\ expected
  /\ Len(path) >= 2 /\ Len(placed) >= 2
  /\ texture = maps
  /\ \E id \in LayerIds, i \in Cells : mask[i] = 1 /\ maps[id][i] = 0

\* ------------------------------------------------------------------------
\* C15
\* ------------------------------------------------------------------------

\* what a caller holds who asked for the maps before the last operation
HeldBefore(id) == [array |-> NewArrays[id], values |-> prev[id]]

\* right after a stamp the arrays handed out hold the stamped values
StampVisible ==
  StampedLast =>
    \A id \in LayerIds :
      getMap(maps, arrays, id).values =
        applyStampUV(prev, mask, layers, lastOp.u, lastOp.v, lastOp.strength,
                     lastOp.radiusFactor)[id]

\* the shader hook hands out the mold array as map0 and the grease array as
\* map1, the ones getMap hands out
ShaderMaps ==
  /\ getMapsForShader(maps, arrays).size = N
  /\ getMapsForShader(maps, arrays).map0 = getMap(maps, arrays, "mold")
  /\ getMapsForShader(maps, arrays).map1 = getMap(maps, arrays, "grease")
  /\ getMapsForShader(maps, arrays).map0.values = maps["mold"]
  /\ getMapsForShader(maps, arrays).map1.values = maps["grease"]

\* C15: getMap(id) and getMapsForShader() (map0 = 'mold', map1 = 'grease')
\* hand out the engine's own arrays: what they hold is the state right after
\* every init and every applyStampUV, and no init or stamp binds another
\* array to a layer id, so a reference taken before a restart is the same
\* array afterwards.
C15_LiveGridAccess ==
  /\ [](ShaderMaps /\ StampVisible)
  /\ [](\A id \in LayerIds : getMap(maps, arrays, id).array = HeldBefore(id).array)
  /\ [][\A id \in LayerIds :
          getMap(maps', arrays', id).array = getMap(maps, arrays, id).array]_vars

\* a second init refilled maps that an earlier init had made dirty
C15_Witness ==
  /\ InitLast /\ ops = 2
  /\ SomeDirt(prev) /\ SomeDirt(maps)
  /\ prev # maps
  /\ \A id \in LayerIds :
       /\ getMap(maps, arrays, id).array = HeldBefore(id).array
       /\ getMap(maps, arrays, id).values # HeldBefore(id).values
\* ------------------------------------------------------------------------
\* C16
\* ------------------------------------------------------------------------

\* thresholds handed to getUnionDirtyRatio: none, the default 0.05, a half
EpsValues == {0, EPS, ONE \div 2}

\* the inside cells where a configured layer's coverage exceeds eps
DirtyInside(eps) ==
  {i \in InsideCells(mask) :
     \E k \in 1 .. Len(layers) : maps[layers[k].id][i] > eps}

\* C16: getUnionDirtyRatio(eps) is the number of inside cells where at least
\* one configured layer's coverage is strictly greater than eps, divided by
\* the number of inside cells, in every reachable grid state and for every
\* configured layer list.
C16_UnionRatioDefinition ==
  \A eps \in EpsValues :
    /\ insideCount = Cardinality(InsideCells(mask))
    /\ insideCount > 0 =>
         getUnionDirtyRatio(maps, mask, insideCount, eps) =
           (Cardinality(DirtyInside(eps)) * ONE) \div insideCount

\* a partly cleaned grid on which the three thresholds give three different
\* ratios, the default one strictly between 0 and 1
C16_Witness ==
  /\ StampedLast /\ insideCount > 0
  /\ Cardinality(DirtyInside(EPS)) > 0
  /\ Cardinality(DirtyInside(EPS)) < insideCount
  /\ getUnionDirtyRatio(maps, mask, insideCount, 0) >
       getUnionDirtyRatio(maps, mask, insideCount, EPS)
  /\ getUnionDirtyRatio(maps, mask, insideCount, EPS) >
       getUnionDirtyRatio(maps, mask, insideCount, ONE \div 2)
\* ------------------------------------------------------------------------
\* C17
\* ------------------------------------------------------------------------

\* coordinates handed to the queries: not a number, below 0, the edges, both
\* sides of a cell border, the middle, above 1
QueryUVs == {NaN, -200, 0, 333, 334, 500, 999, ONE, 1500}

\* the largest coverage of a configured layer at cell i
RECURSIVE MaxCoverage(_, _, _, _)
MaxCoverage(mps, ls, k, i) ==
  IF k > Len(ls) THEN 0
  ELSE Max(mps[ls[k].id][i], MaxCoverage(mps, ls, k + 1, i))

\* the last stamp lowered the cell uvToIndex names wherever it could
CenterIsUvToIndex ==
  (StampedLast /\ lastOp.strength > 0) =>
    /\ CenterCell = uvToIndex(lastOp.u, lastOp.v)
    /\ \A k \in 1 .. Len(layers) :
         (/\ mask[uvToIndex(lastOp.u, lastOp.v)] = 1
          /\ layers[k].eraseRate > 0
          /\ prev[layers[k].id][uvToIndex(lastOp.u, lastOp.v)] > 0)
           => maps[layers[k].id][uvToIndex(lastOp.u, lastOp.v)] <
                prev[layers[k].id][uvToIndex(lastOp.u, lastOp.v)]

\* C17: getUnionDirtyValueAt(u, v) is the largest coverage over the layers at
\* the cell (u, v) addresses when that cell is inside the silhouette and 0
\* when it is outside; the cell is the one SilhouetteClip.uvToIndex(u, v)
\* returns and the one applyStampUV(u, v, ...) takes as its centre.
C17_UnionValueAt ==
  /\ \A u \in QueryUVs, v \in QueryUVs :
       getUnionDirtyValueAt(maps, mask, u, v) =
         IF mask[uvToIndex(u, v)] = 1
           THEN MaxCoverage(maps, layers, 1, uvToIndex(u, v))
           ELSE 0
  /\ CenterIsUvToIndex

\* a stamp off the diagonal lowered its centre cell, which is inside and still
\* dirty, with the two layers holding different values there; a cell outside
\* the silhouette exists
C17_Witness ==
  /\ StampedLast /\ lastOp.strength > 0
  /\ CellCoord(lastOp.u) # CellCoord(lastOp.v)
  /\ mask[CenterCell] = 1
  /\ \E i \in Cells : mask[i] = 0
  /\ maps["mold"][CenterCell] # maps["grease"][CenterCell]
  /\ getUnionDirtyValueAt(maps, mask, lastOp.u, lastOp.v) > 0
  /\ getUnionDirtyValueAt(maps, mask, lastOp.u, lastOp.v) <
       getUnionDirtyValueAt(prev, mask, lastOp.u, lastOp.v)
\* ------------------------------------------------------------------------
\* C18
\* ------------------------------------------------------------------------

\* the layer id has no target in the coverage handed to init, or one <= 0
NoTarget(coverage, id) == id \notin DOMAIN coverage \/ coverage[id] <= 0

\* C18: init fills with 0 the map of every configured layer whose target is
\* <= 0 or missing from the targets, and of every configured layer when the
\* silhouette has no inside cell, whatever the map held before the call.
C18_ZeroFill ==
  InitLast =>
    \A k \in 1 .. Len(layers) :
      (NoTarget(lastOp.coverage, layers[k].id) \/ insideCount = 0)
        => maps[layers[k].id] = ZeroGrid

\* an init without a target for the mold layer emptied the mold map, which an
\* earlier init had made dirty, and made the grease map dirty
C18_Witness ==
  /\ InitLast /\ insideCount > 0
  /\ layers = LayersBoth
  /\ "mold" \notin DOMAIN lastOp.coverage
  /\ \E i \in Cells : prev["mold"][i] > 0
  /\ maps["mold"] = ZeroGrid
  /\ \E i \in Cells : maps["grease"][i] > 0
\* ------------------------------------------------------------------------
\* C19
\* ------------------------------------------------------------------------

\* a coordinate brought into [0, 1], not-a-number taken as 0
Clamped01(w) == IF w = NaN THEN 0 ELSE IF w < 0 THEN 0 ELSE IF w > ONE THEN ONE ELSE w

\* the column or row a coordinate in [0, 1] addresses: 1 is the last one
CellOf(w) == IF w = ONE THEN N - 1 ELSE (w * N) \div ONE

Valid(w) == w # NaN /\ w >= 0 /\ w <= ONE

\* C19: an invalid u or v (negative, above 1, not a number) is clamped and
\* never an error: applyStampUV and getUnionDirtyValueAt act exactly as for
\* the clamped coordinates, not-a-number counts as 0, the value 1 addresses
\* the last column or row, and the cell index is always within the grid.
C19_InvalidUVClamped ==
  /\ \A w \in QueryUVs :
       /\ CellCoord(w) \in 0 .. (N - 1)
       /\ CellCoord(w) = CellOf(Clamped01(w))
  /\ CellCoord(NaN) = 0 /\ CellCoord(ONE) = N - 1
  /\ \A u \in QueryUVs, v \in QueryUVs :
       /\ CellCoord(v) * N + CellCoord(u) \in Cells
       /\ getUnionDirtyValueAt(maps, mask, u, v) =
            getUnionDirtyValueAt(maps, mask, Clamped01(u), Clamped01(v))
  /\ StampedLast =>
       /\ CenterCell \in Cells
       /\ CenterCell = CellOf(Clamped01(lastOp.v)) * N + CellOf(Clamped01(lastOp.u))
       /\ maps = applyStampUV(prev, mask, layers, Clamped01(lastOp.u),
                              Clamped01(lastOp.v), lastOp.strength,
                              lastOp.radiusFactor)

\* a stamp at u not a number and v above 1 lowered the first cell of the
\* last row
C19_Witness ==
  /\ StampedLast
  /\ lastOp.u = NaN /\ lastOp.v > ONE
  /\ CenterCell = (N - 1) * N
  /\ mask[CenterCell] = 1
  /\ \E id \in LayerIds : maps[id][CenterCell] < prev[id][CenterCell]
  /\ getUnionDirtyValueAt(maps, mask, lastOp.u, lastOp.v) <
       getUnionDirtyValueAt(prev, mask, 0, ONE)
\* ------------------------------------------------------------------------
\* C20
\* ------------------------------------------------------------------------

Word(hi, lo) == [hi |-> hi, lo |-> lo]

\* the outputs of n calls of next() from a given state
RECURSIVE OutputsFrom(_, _)
OutputsFrom(state, n) ==
  IF n = 0 THEN << >>
  ELSE << RNG_output(RNG_advance(state)) >>
         \o OutputsFrom(RNG_advance(state), n - 1)

\* what a generator whose state is 0 would put out in its first five calls
ZeroStateOutputs == OutputsFrom(Word(0, 0), 5)

FirstFive(g) == SubSeq(gens[g].outs, 1, 5)

\* C20: a generator built with seed 0 starts from the fixed non-zero state
\* 0x6d2b79f5 and not from state 0, its first 5 outputs are not those of a
\* generator in state 0, and they differ from the first 5 outputs of a
\* generator built with seed 1.
C20_ZeroSeedRemap ==
  \A g \in DOMAIN gens :
    gens[g].seed = 0 =>
      /\ gens[g].start = Word(27947, 31221)
      /\ gens[g].start # Word(0, 0)
      /\ Len(gens[g].outs) >= 5 => FirstFive(g) # ZeroStateOutputs
      /\ \A h \in DOMAIN gens :
           (gens[h].seed = 1 /\ Len(gens[g].outs) >= 5 /\ Len(gens[h].outs) >= 5)
             => FirstFive(g) # FirstFive(h)

\* a generator built with seed 0 and one built with seed 1 after five calls
\* of next() on each
C20_Witness ==
  /\ DOMAIN gens = GenNames
  /\ gens["a"].seed = 0 /\ gens["b"].seed = 1
  /\ Len(gens["a"].outs) = 5 /\ Len(gens["b"].outs) = 5
  /\ gens["a"].start # gens["b"].start

\* the grids differed from the level's first grids just before the event
StampedBetween == \E id \in LayerIds : prev[id] # levelMaps[id]

\* C21: right after RESTART is handled the grids are those the level had when
\* it was first initialised, whatever was stamped in between, and the seed
\* changes in no step but the handling of NEXT.
C21_RestartReproducibility ==
  /\ [](lastOp.name = "restart" => maps = levelMaps)
  /\ [][ctxSeed' # ctxSeed => lastOp'.name = "next"]_vars

C21_Witness ==
  /\ lastOp.name = "restart"
  /\ StampedBetween
  /\ maps = levelMaps
  /\ wonBefore

\* C22: while the level is won, from the step that handled the win to the
\* handling of RESTART or NEXT, no pointer event reaches the converter (no
\* call is counted or recorded), no stamp is placed or applied and the grids
\* stay as they are.
C22_InputLockAfterWin ==
  [][(won /\ won') => /\ maps' = maps
                      /\ calls' = calls
                      /\ path' = path
                      /\ placed' = placed
                      /\ stamped' = stamped
                      /\ residual' = residual]_vars

C22_Witness ==
  /\ won
  /\ locked
  /\ lastOp.name = "declined"
  /\ isDown
  /\ calls < MaxCalls

\* no other handler of the event had on() as its last call
OnlySubscriber(e, h) ==
  \A h2 \in Handlers \ {h} : subs[<< e, h2 >>] # "on"

\* C23: once on(e, h) or on(e, h, context) was followed by off(e, h) with the
\* handler function itself, an emit of e does not invoke h, and when h was the
\* only subscriber of e, hasListeners(e) is false.
C23_Unsubscribe ==
  \A e \in Events, h \in Handlers :
    subs[<< e, h >>] = "off" =>
      /\ (busOp.name = "emit" /\ busOp.event = e) => invoked[h] = 0
      /\ OnlySubscriber(e, h) => ~hasListeners(listeners, e)

\* the same where no context was ever given
UnsubscribeWithoutContext == binds = 0 => C23_Unsubscribe

C23_Witness ==
  /\ binds = 0
  /\ subs[<< "RESTART", "handleRestart" >>] = "off"
  /\ busOp.name = "emit"
  /\ busOp.event = "RESTART"
  /\ invoked["handleRestart"] = 0
  /\ ~hasListeners(listeners, "RESTART")

\* the tools whose isActive() is true
ActiveTools == {t \in ToolIds : toolActive[t]}

\* C24: driven through setActiveTool and deactivateAll, at most one tool is
\* active (the manager's one, if any); a switch from one tool to another
\* deactivates the first before it activates the second; setActiveTool on
\* the tool that is active already makes no lifecycle call and changes nothing.
C24_OneToolActive ==
  /\ [](/\ Cardinality(ActiveTools) <= 1
        /\ ActiveTools = {activeTool} \ {NoTool}
        /\ (mgrOp.name = "setActiveTool" /\ mgrOp.was \notin {NoTool, mgrOp.tool})
             => toolLog = << LifecycleCall("deactivate", mgrOp.was),
                             LifecycleCall("activate", mgrOp.tool) >>
        /\ (mgrOp.name = "setActiveTool" /\ mgrOp.was = mgrOp.tool)
             => toolLog = << >>)
  /\ [][(mgrOp'.name = "setActiveTool" /\ mgrOp'.was = mgrOp'.tool)
        => UNCHANGED << activeTool, toolActive >>]_vars

C24_Witness ==
  /\ mgrOp.name = "setActiveTool"
  /\ mgrOp.was = "scrub"
  /\ mgrOp.tool = "powerWash"
  /\ ActiveTools = {"powerWash"}
  /\ Len(toolLog) = 2

\* an unsigned 32-bit integer
IsU32(w) == w.hi \in 0 .. (W16 - 1) /\ w.lo \in 0 .. (W16 - 1)

\* every value next() returned is an unsigned 32-bit integer, so that
\* float() is in [0, 1)
DrawsInRange ==
  \A g \in DOMAIN gens :
    \A i \in 1 .. Len(gens[g].outs) :
      /\ IsU32(gens[g].outs[i])
      /\ RNG_unit(gens[g].outs[i]) \in 0 .. (ONE - 1)

\* the state the constructor leaves is an unsigned 32-bit integer
StartInRange == \A g \in DOMAIN gens : IsU32(gens[g].start)

\* C25: after construction and after every draw the generator's state is an
\* unsigned 32-bit integer, and every value next() returned is in
\* [0, 2^32 - 1], so that float() is in [0, 1).
C25_StateWidth ==
  /\ \A g \in DOMAIN gens : IsU32(gens[g].state)
  /\ StartInRange
  /\ DrawsInRange

\* a generator built with seed 1 after one draw, its state still below 2^32
C25_Witness ==
  /\ DOMAIN gens = GenNames
  /\ gens["a"].seed = 1
  /\ Len(gens["a"].outs) = 1
  /\ IsU32(gens["a"].state)
  /\ gens["a"].state # gens["a"].start

\* the number of inside cells of a grid that hold 1
OnesInside(grid, m) == Cardinality({i \in Cells : m[i] = 1 /\ grid[i] = ONE})

\* every cell of the grid is exactly 0 or 1
Binary(grid) == \A i \in Cells : grid[i] \in {0, ONE}

\* the layers the threshold init has just filled for a target strictly
\* between 0 and 1
PartialLayers ==
  {k \in 1 .. Len(layers) :
     /\ Target(lastOp.coverage, layers[k].id) > 0
     /\ Target(lastOp.coverage, layers[k].id) < ONE}

\* the count of ones is at most one cell away from target * insideCount
WithinOneCell(count, target, inside) ==
  /\ count * ONE >= (target * inside) - ONE
  /\ count * ONE <= (target * inside) + ONE

\* the threshold the search returned for the layer just initialised
FoundThreshold(k) ==
  findThreshold(scratchA, mask, insideCount,
                Target(lastOp.coverage, layers[k].id))

\* the inside cells whose blurred noise is less than 2^-13 away from the
\* threshold t, that is, between the last bounds of the search
Band(values, m, t) ==
  {i \in Cells : /\ m[i] = 1
                  /\ values[i] * TUNIT >= (t - 1) * ONE
                  /\ values[i] * TUNIT < (t + 1) * ONE}

\* the count of ones is at most b cells away from target * insideCount
WithinCells(count, target, inside, b) ==
  /\ count * ONE >= (target * inside) - (b * ONE)
  /\ count * ONE <= (target * inside) + (b * ONE)

AfterThresholdInit ==
  lastOp.name = "init" /\ variant = "threshold" /\ insideCount > 0

\* C26 as stated: after the threshold init with a target strictly between 0
\* and 1, every cell of the layer is exactly 0 or 1 and the number of inside
\* cells set to 1 is target * insideCount up to one cell, for every noise
\* field.
C26_ExactTarget ==
  AfterThresholdInit =>
    \A k \in PartialLayers :
      /\ Binary(maps[layers[k].id])
      /\ WithinOneCell(OnesInside(maps[layers[k].id], mask),
                       Target(lastOp.coverage, layers[k].id), insideCount)

\* C26: after the threshold init with a target strictly between 0 and 1,
\* every cell of the layer is exactly 0 or 1, and the number of inside cells
\* set to 1 differs from target * insideCount by at most the number of
\* inside cells whose blurred noise lies between the last two bounds of the
\* 12-step search (less than 2^-13 away from the threshold returned).
C26_ThresholdHitsTarget ==
  AfterThresholdInit =>
    \A k \in PartialLayers :
      /\ Binary(maps[layers[k].id])
      /\ \E t \in { FoundThreshold(k) } :
           WithinCells(OnesInside(maps[layers[k].id], mask),
                       Target(lastOp.coverage, layers[k].id), insideCount,
                       Cardinality(Band(scratchA, mask, t)))

\* a threshold init for target 0.5 that left ones and zeros inside, exactly
\* one cell in the band
C26_Witness ==
  /\ AfterThresholdInit
  /\ PartialLayers = {1}
  /\ Target(lastOp.coverage, layers[1].id) = 500
  /\ OnesInside(maps[layers[1].id], mask) \in 1 .. (insideCount - 1)
  /\ Cardinality(Band(scratchA, mask, FoundThreshold(1))) = 1

\* the layers the init has just filled for a target of 1 or more
FullLayers ==
  {k \in 1 .. Len(layers) : Target(lastOp.coverage, layers[k].id) >= ONE}

\* C27: after the threshold init with a target of 1 or more, whatever the
\* seed, every inside cell of the layer holds 1 (and every outside cell 0),
\* so that the union dirty ratio is 1: every inside cell counts as dirty.
C27_FullCoverageInit ==
  AfterThresholdInit =>
    \A k \in FullLayers :
      /\ \A i \in Cells : maps[layers[k].id][i] = (IF mask[i] = 1 THEN ONE ELSE 0)
      /\ UnionDirtyCount(maps, mask, EPS) = insideCount

\* a full silhouette initialised for a target above 1 after an init that
\* had left clean cells
C27_Witness ==
  /\ AfterThresholdInit
  /\ mask = MaskFull
  /\ FullLayers = {1}
  /\ lastOp.coverage[layers[1].id] > ONE
  /\ UnionDirtyCount(maps, mask, EPS) = N * N
  /\ \E i \in Cells : prev[layers[1].id][i] = 0
  /\ ops = 2

\* the direct definition of the blur: the mean of the BLUR_DIAMETER samples
\* of the same row whose columns, clamped to the grid, surround the cell ...
RowMean(buf, i) ==
  SumSeq([k \in 1 .. BLUR_DIAMETER |->
            buf[(i \div N) * N
                + Max(0, Min(N - 1, (i % N) + k - 1 - BLUR_RADIUS))]])
    \div BLUR_DIAMETER

\* ... then of the samples of the same column whose rows, clamped to the
\* grid, surround the cell
ColumnMean(buf, i) ==
  SumSeq([k \in 1 .. BLUR_DIAMETER |->
            buf[Max(0, Min(N - 1, (i \div N) + k - 1 - BLUR_RADIUS)) * N
                + (i % N)]])
    \div BLUR_DIAMETER

RowMeans(buf) == [i \in Cells |-> RowMean(buf, i)]

AtLeast95Clean ==
  100 * UnionDirtyCount(maps, mask, EPS) <= 5 * insideCount

\* C29: between two level (re)initialisations WIN is emitted at most once,
\* and a WIN is emitted only by a progress tick that finds the grids clean
\* enough (clean percent >= 95) and the level not won yet.
C29_WinFiresOnce ==
  /\ [](wins <= 1 /\ (won <=> wins = 1))
  /\ [][wins' = wins + 1 =>
          /\ lastOp'.name = "tick"
          /\ ~won
          /\ AtLeast95Clean
          /\ maps' = maps]_vars

\* a second level won after the first was won and re-initialised
C29_Witness ==
  /\ wins = 1
  /\ wonBefore
  /\ won
  /\ lastOp.name = "tick"

\* C30: after every handleDown, handleMove and handleUp the residual is at
\* least 0 and less than S = max(1, tool.spacing), and it is 0 right after
\* handleDown and right after handleUp.
C30_ResidualInvariant ==
  /\ residual >= 0
  /\ residual < Max(ONE, tool.spacing)
  /\ (Len(path) > 0 /\ LastCall.op \in {"down", "up"}) => residual = 0

\* a move that placed spacing stamps and carried the rest of the segment
C30_Witness ==
  /\ Len(path) > 1
  /\ LastCall.op = "move"
  /\ Len(placed) >= 2
  /\ placed[Len(placed)].kind = "move"
  /\ residual > 0

\* ------------------------------------------------------------------------
\* C31: handleMove terminates and places floor((residual + dist) / S) stamps
\* ------------------------------------------------------------------------

\* the step is a handleMove the converter processed
MoveCall ==
  /\ Len(path') = Len(path) + 1
  /\ path'[Len(path')].op = "move"
  /\ path'[Len(path')].live

\* the length of the segment from the last recorded point to the sample
SegmentLength == Dist(lastX' - lastX, lastY' - lastY)

\* the stamps the step placed, and the spacing stamps among them
NewStamps == SubSeq(placed', Len(placed) + 1, Len(placed'))
SpacingStamps == SelectSeq(NewStamps, LAMBDA p : p.kind = "move")

\* p lies on the segment between the last recorded point and the sample
OnSegment(p) ==
  /\ p.x >= Min(lastX, lastX') /\ p.x <= Max(lastX, lastX')
  /\ p.y >= Min(lastY, lastY') /\ p.y <= Max(lastY, lastY')

\* C31 -- handleMove terminates for every input and every spacing
\* configuration (a configured spacing <= 0 is treated as 1): for a segment
\* of length dist > 0 it places exactly floor((residualBefore + dist) / S)
\* spacing stamps, each on the segment between the previous and the current
\* point, and no other stamp, and then stops (the call completes, with the
\* sample recorded as the last point).
C31_MoveTerminates ==
  [][(MoveCall /\ SegmentLength > 0) =>
       /\ Len(SpacingStamps) = (residual + SegmentLength) \div Spacing
       /\ Len(NewStamps) = Len(SpacingStamps)
       /\ \A k \in 1 .. Len(NewStamps) : OnSegment(NewStamps[k])
       /\ lastX' = path'[Len(path')].x /\ lastY' = path'[Len(path')].y]_vars

\* a tool configured with spacing 0: a move back along the line over two
\* pixels or more, after a move that left a residual, placed a stamp per pixel
C31_Witness ==
  /\ tool.spacing <= 0
  /\ PressThenMoves(3) /\ Len(path) = 3
  /\ path[2].x > path[1].x
  /\ path[2].x - path[3].x >= 2 * ONE
  /\ Len(MoveStamps) = (path[2].x - path[1].x) \div ONE + (path[2].x - path[3].x) \div ONE
  /\ LastCall.live

\* ------------------------------------------------------------------------
\* C32: the dwell stamp
\* ------------------------------------------------------------------------

\* C32 -- Dwell stamp: a handleMove to exactly the last recorded point
\* (distance 0) while dragging, on a converter that takes timestamps, places
\* exactly one stamp at that point when the timestamp advanced (t > lastT)
\* and no stamp when it did not; in both cases residual and the last
\* direction are left unchanged and the last timestamp is updated.
C32_DwellStamp ==
  [][(MoveCall /\ SegmentLength = 0 /\ strokeKind # "timeless") =>
       /\ IF path'[Len(path')].t > lastT
            THEN /\ Len(NewStamps) = 1
                 /\ NewStamps[1].x = lastX /\ NewStamps[1].y = lastY
                 /\ NewStamps[1].distance = 0
            ELSE Len(NewStamps) = 0
       /\ residual' = residual
       /\ lastDirX' = lastDirX /\ lastDirY' = lastDirY
       /\ lastT' = path'[Len(path')].t]_vars

\* after a move that set a direction and left a residual, the pointer
\* rested a frame on the point and then was sampled again at the same
\* instant: one dwell stamp, residual and direction as the move left them
C32_Witness ==
  /\ strokeKind # "timeless"
  /\ PressThenMoves(4) /\ Len(path) = 4
  /\ path[2].x > path[1].x
  /\ path[3].x = path[2].x /\ path[3].t > path[2].t
  /\ LastCall.x = path[3].x /\ LastCall.t = path[3].t
  /\ LastCall.live
  /\ Len(SelectSeq(placed, LAMBDA p : p.kind = "dwell")) = 1
  /\ residual > 0
  /\ lastDirX = ONE /\ lastDirY = 0
  /\ lastT = LastCall.t

\* ------------------------------------------------------------------------
\* C33: stamps commute, and layers are stamped independently
\* ------------------------------------------------------------------------

\* the maps mps with every layer but id holding `value` in every cell
OtherLayers(mps, id, value) ==
  [l \in LayerIds |-> IF l = id THEN mps[l] ELSE [i \in Cells |-> value]]

\* the layers hold the same coverage whichever order the two stamps came in
SameInEitherOrder == \A l \in 1 .. Len(layers) : maps[layers[l].id] = maps2[layers[l].id]

\* what the pair of stamps left in a layer is what it leaves there when
\* the other layers are clean, or fully covered
IndependentOfOtherLayers ==
  lastOp.name = "pair" =>
    \A l \in 1 .. Len(layers) : \A value \in {0, ONE} :
      StampTwice(OtherLayers(prev, layers[l].id, value),
                 lastOp.first, lastOp.second)[layers[l].id]
        = maps[layers[l].id]

\* C33 -- Stamps commute: for any grid state and any two stamps
\* (u1, v1, s1, r1) and (u2, v2, s2, r2), the layers' eraseRate being >= 0,
\* applying them in either order yields the same coverage grids in every
\* layer, and each layer's result does not depend on any other layer's
\* coverage.
C33_StampsCommute ==
  (\A l \in 1 .. Len(layers) : layers[l].eraseRate >= 0) =>
    (SameInEitherOrder /\ IndependentOfOtherLayers)

\* two different stamps that both erased, on a grid that two stamps had
\* erased from before: the second took a cell to the floor of 0 that the
\* first alone did not, and another cell is still covered
C33_Witness ==
  /\ lastOp.name = "pair" /\ ops = 2
  /\ lastOp.first # lastOp.second
  /\ lastOp.first[3] > 0 /\ lastOp.second[3] > 0
  /\ \E i \in Cells :
       /\ applyStampUV(prev, mask, layers, lastOp.first[1], lastOp.first[2],
                       lastOp.first[3], lastOp.first[4])["mold"][i] > 0
       /\ applyStampUV(prev, mask, layers, lastOp.second[1], lastOp.second[2],
                       lastOp.second[3], lastOp.second[4])["mold"][i] > 0
       /\ prev["mold"][i] < ONE
       /\ maps["mold"][i] = 0
  /\ \E i \in Cells : maps["mold"][i] > 0 /\ maps["mold"][i] < prev["mold"][i]
  /\ maps = maps2

\* ------------------------------------------------------------------------
\* The input layer, the tool manager and the tools
\* ------------------------------------------------------------------------

\* number of input-layer calls explored
MaxEvents == 5

\* pointer positions (px) on the line the power-wash stream is aimed along
InputXs == {0, 12}

\* the tool the InputController was constructed with
ControllerTool == "scrub"

\* PowerWashTool.handleDown past its `active` guard
PowerWash_handleDown(w, x) ==
  [w EXCEPT !.isStreaming = TRUE, !.streamStartX = x, !.streamTargetX = x,
            !.timeSinceLastTick = 0, !.hasHit = FALSE]

\* PowerWashTool.handleMove past its `active` guard
PowerWash_handleMove(w, x) ==
  IF ~w.isStreaming THEN w ELSE [w EXCEPT !.streamTargetX = x]

\* PowerWashTool.handleUp past its `active` guard
PowerWash_handleUp(w, x) == [w EXCEPT !.isStreaming = FALSE, !.hasHit = FALSE]

\* PowerWashTool.deactivate() after super.deactivate()
PowerWash_deactivate(w) == [w EXCEPT !.isStreaming = FALSE]

\* the guard every tool handler starts with: if (!this.active) return
\* (t is NoTool where getActiveTool() returned null: the call throws)
Acts_always(t) == t # NoTool
Acts(t) == t # NoTool /\ toolActive[t]

\* tool.handleDown / handleMove / handleUp of tool t: a ScrubbingTool hands
\* the call to its stroke converter, a PowerWashTool aims its stream
ToolHandle(op, t, x) ==
  /\ reached' = IF Acts(t) THEN Append(reached, [tool |-> t, op |-> op])
                ELSE reached
  /\ wash' = IF Acts(t) /\ t = "powerWash"
               THEN (IF op = "down" THEN PowerWash_handleDown(wash, x)
                     ELSE IF op = "move" THEN PowerWash_handleMove(wash, x)
                     ELSE PowerWash_handleUp(wash, x))
               ELSE wash
  /\ UNCHANGED toolActive

\* tool.deactivate() of tool t: BaseTool.deactivate() clears `active` and
\* calls reset() where the tool has one (ScrubbingTool: strokeSystem.reset())
ToolDeactivate(t) ==
  IF t = NoTool
    THEN UNCHANGED << toolActive, reached, wash >>
    ELSE /\ toolActive' = [toolActive EXCEPT ![t] = FALSE]
         /\ reached' = IF t = "scrub"
                         THEN Append(reached, [tool |-> t, op |-> "reset"])
                         ELSE reached
         /\ wash' = IF t = "powerWash" THEN PowerWash_deactivate(wash) ELSE wash

\* the call returned before it reached a tool
NoToolCall == UNCHANGED << toolActive, reached, wash >>

strokeRest == << strokeKind, tool, active, lastX, lastY, lastT, residual,
                 stamped, lastDirX, lastDirY, fracs, draws, lastResult,
                 unread, expected, placed, path, calls, isDown >>
gameRest == << ctxSeed, won, wins, wonBefore, levels, levelMaps >>

\* one more call of the input layer
InputCall(name, id) ==
  /\ inputOp.n < MaxEvents
  /\ inputOp' = [name |-> name, id |-> id, n |-> inputOp.n + 1,
                 locks |-> inputOp.locks + (IF name = "lock" THEN 1 ELSE 0)]
  /\ UNCHANGED << dirtVars, twinVars, gens, strokeRest, sceneVars, gameRest,
                  busVars, activeTool, toolLog, mgrOp, inputKind, washOp >>

\* InputController.handleDown(x, y, t), called for a pointer that pressed
CtlDown(x) ==
  /\ inputKind = "controller" /\ pressed = {}
  /\ InputCall("down", 0)
  /\ pressed' = {0}
  /\ UNCHANGED << locked, activePointerId, delivered >>
  /\ IF locked
       THEN NoToolCall /\ UNCHANGED inputActive
       ELSE inputActive' = TRUE /\ ToolHandle("down", ControllerTool, x)

\* InputController.handleMove(x, y, t)
CtlMove(x) ==
  /\ inputKind = "controller" /\ pressed # {}
  /\ InputCall("move", 0)
  /\ UNCHANGED << locked, activePointerId, delivered, pressed, inputActive >>
  /\ IF locked THEN NoToolCall ELSE ToolHandle("move", ControllerTool, x)

\* InputController.handleUp(x, y, t)
CtlUp(x) ==
  /\ inputKind = "controller" /\ pressed # {}
  /\ InputCall("up", 0)
  /\ pressed' = {}
  /\ UNCHANGED << locked, activePointerId, delivered >>
  /\ IF locked
       THEN NoToolCall /\ UNCHANGED inputActive
       ELSE inputActive' = FALSE /\ ToolHandle("up", ControllerTool, x)

\* InputController.lock()
CtlLock ==
  /\ inputKind = "controller"
  /\ InputCall("lock", NoPointer)
  /\ locked' = TRUE
  /\ inputActive' = FALSE
  /\ UNCHANGED << activePointerId, delivered, pressed >>
  /\ IF inputActive THEN ToolDeactivate(ControllerTool) ELSE NoToolCall

\* InputController.unlock()
CtlUnlock ==
  /\ inputKind = "controller"
  /\ InputCall("unlock", NoPointer)
  /\ locked' = FALSE
  /\ inputActive' = FALSE
  /\ UNCHANGED << activePointerId, delivered, pressed >>
  /\ NoToolCall

\* InputHandler.onPointerDown(pointer)
HdlDown(id, x) ==
  /\ inputKind = "handler" /\ id \notin pressed
  /\ InputCall("down", id)
  /\ pressed' = pressed \cup {id}
  /\ UNCHANGED << locked, inputActive >>
  /\ IF locked \/ activePointerId # NoPointer
       THEN NoToolCall /\ UNCHANGED << activePointerId, delivered >>
       ELSE /\ activePointerId' = id
            /\ delivered' = Append(delivered, [op |-> "down", id |-> id])
            /\ ToolHandle("down", activeTool, x)

\* InputHandler.onPointerMove(pointer)
HdlMove(id, x) ==
  /\ inputKind = "handler" /\ id \in pressed
  /\ InputCall("move", id)
  /\ UNCHANGED << locked, inputActive, pressed, activePointerId >>
  /\ IF locked \/ id # activePointerId
       THEN NoToolCall /\ UNCHANGED delivered
       ELSE /\ delivered' = Append(delivered, [op |-> "move", id |-> id])
            /\ ToolHandle("move", activeTool, x)

\* InputHandler.onPointerUp(pointer)
HdlUp(id, x) ==
  /\ inputKind = "handler" /\ id \in pressed
  /\ InputCall("up", id)
  /\ pressed' = pressed \ {id}
  /\ UNCHANGED << locked, inputActive >>
  /\ IF id # activePointerId
       THEN NoToolCall /\ UNCHANGED << activePointerId, delivered >>
       ELSE /\ activePointerId' = NoPointer
            /\ IF locked
                 THEN NoToolCall /\ UNCHANGED delivered
                 ELSE /\ delivered' = Append(delivered, [op |-> "up", id |-> id])
                      /\ ToolHandle("up", activeTool, x)

\* InputHandler.lock()
HdlLock ==
  /\ inputKind = "handler"
  /\ InputCall("lock", NoPointer)
  /\ locked' = TRUE
  /\ activePointerId' = NoPointer
  /\ UNCHANGED << inputActive, delivered, pressed >>
  /\ IF activePointerId # NoPointer THEN ToolDeactivate(activeTool)
     ELSE NoToolCall

\* InputHandler.unlock()
HdlUnlock ==
  /\ inputKind = "handler"
  /\ InputCall("unlock", NoPointer)
  /\ locked' = FALSE
  /\ activePointerId' = NoPointer
  /\ UNCHANGED << inputActive, delivered, pressed >>
  /\ NoToolCall

\* toolManager.setActiveTool(t) and deactivateAll() beside the input layer;
\* a PowerWashTool's deactivate() also stops its stream
SwitchTool(t) ==
  /\ inputOp.n < MaxEvents
  /\ \E log \in { setActiveTool(activeTool, t) } :
        /\ toolLog' = log
        /\ toolActive' = Lifecycle(toolActive, log)
        /\ wash' = IF \E k \in 1 .. Len(log) :
                        log[k] = LifecycleCall("deactivate", "powerWash")
                     THEN PowerWash_deactivate(wash) ELSE wash
  /\ activeTool' = t
  /\ mgrOp' = [name |-> "setActiveTool", tool |-> t, was |-> activeTool]
  /\ inputOp' = [inputOp EXCEPT !.name = "setActiveTool", !.id = NoPointer,
                                !.n = @ + 1]
  /\ UNCHANGED << dirtVars, twinVars, gens, strokeVars, sceneVars, gameVars,
                  busVars, inputKind, activePointerId, pressed, delivered,
                  reached, washOp >>

SwitchOff ==
  /\ inputOp.n < MaxEvents
  /\ \E log \in { deactivateAll(activeTool) } :
        /\ toolLog' = log
        /\ toolActive' = Lifecycle(toolActive, log)
        /\ wash' = IF log # << >> /\ activeTool = "powerWash"
                     THEN PowerWash_deactivate(wash) ELSE wash
  /\ activeTool' = NoTool
  /\ mgrOp' = [name |-> "deactivateAll", tool |-> NoTool, was |-> activeTool]
  /\ inputOp' = [inputOp EXCEPT !.name = "deactivateAll", !.id = NoPointer,
                                !.n = @ + 1]
  /\ UNCHANGED << dirtVars, twinVars, gens, strokeVars, sceneVars, gameVars,
                  busVars, inputKind, activePointerId, pressed, delivered,
                  reached, washOp >>

\* the scene after create(): the scrubbing tool was selected, and the input
\* layer is an InputController holding that tool or an InputHandler asking
\* the manager for the active tool
InitInput ==
  /\ DirtNew /\ variant = "thickness" /\ mask = MaskFull /\ layers = LayersBoth
  /\ TwinNew /\ StrokeIdle /\ SceneNew /\ GensNone /\ GameNew
  /\ levelMaps = maps
  /\ BusNew
  /\ activeTool = "scrub"
  /\ toolActive = [t \in ToolIds |-> t = "scrub"]
  /\ toolLog = << LifecycleCall("activate", "scrub") >>
  /\ mgrOp = [name |-> "setActiveTool", tool |-> "scrub", was |-> NoTool]
  /\ InputNew
  /\ inputKind \in {"controller", "handler"}
  /\ wash = WashNew

NextInput ==
  \/ \E x \in InputXs : CtlDown(x)
  \/ \E x \in InputXs : CtlMove(x)
  \/ \E x \in InputXs : CtlUp(x)
  \/ CtlLock
  \/ CtlUnlock
  \/ \E id \in Pointers, x \in InputXs : HdlDown(id, x)
  \/ \E id \in Pointers, x \in InputXs : HdlMove(id, x)
  \/ \E id \in Pointers, x \in InputXs : HdlUp(id, x)
  \/ HdlLock
  \/ HdlUnlock
  \/ \E t \in ToolIds : SwitchTool(t)
  \/ SwitchOff

SpecInput == InitInput /\ [][NextInput]_vars

\* ------------------------------------------------------------------------
\* C34, C35: lock(), unlock() and the active tool
\* ------------------------------------------------------------------------

\* the tool the input layer hands its events to, if it is the one the
\* manager has selected
SelectedTool ==
  IF inputKind = "handler" THEN activeTool
  ELSE IF activeTool = ControllerTool THEN ControllerTool
  ELSE NoTool

\* the step is a pointer press handed to an unlocked input layer that has
\* no pointer in progress
PressWhileUnlocked ==
  /\ inputOp'.name = "down" /\ inputOp'.n = inputOp.n + 1
  /\ ~locked
  /\ activePointerId = NoPointer

\* C34 -- Input recovers after unlock: after lock() followed by unlock(),
\* the next handleDown is forwarded to the selected tool and the tool acts
\* on it (a ScrubbingTool hands it to its converter, which places the anchor
\* stamp), also when lock() was called while a pointer was down.
C34_InputRecovers ==
  [][(PressWhileUnlocked /\ inputOp.locks > 0 /\ SelectedTool # NoTool) =>
       reached' = Append(reached, [tool |-> SelectedTool, op |-> "down"])]_vars

\* lock() and unlock() with no pointer down, then a press: the scrubbing
\* tool acted on it
C34_Witness ==
  /\ inputKind = "controller"
  /\ inputOp.name = "down" /\ inputOp.n = 3 /\ inputOp.locks = 1
  /\ ~locked /\ inputActive
  /\ mgrOp.was = NoTool
  /\ reached = << [tool |-> "scrub", op |-> "down"] >>

\* C35 -- Active-tool consistency: whenever ToolManager.getActiveTool()
\* returns a tool T, T.isActive() is true, after any interleaving of
\* setActiveTool/deactivateAll with InputController or InputHandler
\* lock()/unlock() calls and pointer events.
C35_ActiveToolConsistency == activeTool # NoTool => toolActive[activeTool]

\* driven through an InputHandler: a press, a switch to the other tool while
\* the pointer is down, a release, and lock() and unlock() with no pointer
\* down left the selected tool active
C35_Witness ==
  /\ inputKind = "handler"
  /\ inputOp.name = "unlock" /\ inputOp.locks = 1 /\ inputOp.n = 5
  /\ Len(delivered) = 2
  /\ activeTool = "powerWash" /\ toolActive["powerWash"]
  /\ ~toolActive["scrub"]

\* what does hold: a press handed to an unlocked input layer is acted on by
\* the selected tool whenever that tool is still active, ...
ActiveToolActsOnPress ==
  [][(PressWhileUnlocked /\ SelectedTool # NoTool /\ toolActive[SelectedTool]) =>
       reached' = Append(reached, [tool |-> SelectedTool, op |-> "down"])]_vars

\* ... and the manager's tool is active as long as lock() was never called
ConsistentBeforeLock == inputOp.locks = 0 => C35_ActiveToolConsistency

\* ------------------------------------------------------------------------
\* The pointer events of several pointers, and C36
\* ------------------------------------------------------------------------

\* one more pointer event handled by an InputService
ServiceCall(name, id) ==
  /\ inputOp.n < MaxEvents
  /\ inputOp' = [name |-> name, id |-> id, n |-> inputOp.n + 1,
                 locks |-> inputOp.locks]
  /\ UNCHANGED << dirtVars, twinVars, gens, strokeKind, tool, active, lastX,
                  lastY, lastT, residual, stamped, lastDirX, lastDirY, fracs,
                  draws, lastResult, unread, expected, placed, path, calls,
                  inputActive, sceneVars, gameVars, busVars, managerVars,
                  inputKind, reached, washVars >>

\* the callbacks are run with the pointer's sample
Deliver(op, id) == delivered' = Append(delivered, [op |-> op, id |-> id])

\* a service that hands on the moves of every pointer while one is down
IsActivePointer_any(id, act) == TRUE

\* pointer.id === this.activePointerId
IsActivePointer(id, act) == id = act

\* InputService.handleDown(pointer), the version that tracks the pointer
SvcDown(id) ==
  /\ inputKind = "service" /\ id \notin pressed
  /\ ServiceCall("down", id)
  /\ pressed' = pressed \cup {id}
  /\ IF isDown
       THEN UNCHANGED << isDown, activePointerId, delivered >>
       ELSE isDown' = TRUE /\ activePointerId' = id /\ Deliver("down", id)

\* InputService.handleMove(pointer)
SvcMove(id) ==
  /\ inputKind = "service" /\ id \in pressed
  /\ ServiceCall("move", id)
  /\ UNCHANGED << pressed, isDown, activePointerId >>
  /\ IF ~isDown \/ ~IsActivePointer(id, activePointerId)
       THEN UNCHANGED delivered
       ELSE Deliver("move", id)

\* InputService.handleUp(pointer)
SvcUp(id) ==
  /\ inputKind = "service" /\ id \in pressed
  /\ ServiceCall("up", id)
  /\ pressed' = pressed \ {id}
  /\ IF ~IsActivePointer(id, activePointerId)
       THEN UNCHANGED << isDown, activePointerId, delivered >>
       ELSE isDown' = FALSE /\ activePointerId' = NoPointer /\ Deliver("up", id)

\* InputService.handleDown(pointer), the version that listens to pointer 0
Svc0Down(id) ==
  /\ inputKind = "service0" /\ id \notin pressed
  /\ ServiceCall("down", id)
  /\ pressed' = pressed \cup {id}
  /\ UNCHANGED activePointerId
  /\ IF id # 0
       THEN UNCHANGED << isDown, delivered >>
       ELSE isDown' = TRUE /\ Deliver("down", id)

\* InputService.handleMove(pointer), the version that listens to pointer 0
Svc0Move(id) ==
  /\ inputKind = "service0" /\ id \in pressed
  /\ ServiceCall("move", id)
  /\ UNCHANGED << pressed, isDown, activePointerId >>
  /\ IF ~isDown \/ id # 0
       THEN UNCHANGED delivered
       ELSE Deliver("move", id)

\* InputService.handleUp(pointer), the version that listens to pointer 0
Svc0Up(id) ==
  /\ inputKind = "service0" /\ id \in pressed
  /\ ServiceCall("up", id)
  /\ pressed' = pressed \ {id}
  /\ UNCHANGED activePointerId
  /\ IF id # 0
       THEN UNCHANGED << isDown, delivered >>
       ELSE isDown' = FALSE /\ Deliver("up", id)

\* an input layer of any of the three kinds, with the scrubbing tool
\* selected, and no pointer down
InitPointer ==
  /\ DirtNew /\ variant = "thickness" /\ mask = MaskFull /\ layers = LayersBoth
  /\ TwinNew /\ StrokeIdle /\ SceneNew /\ GensNone /\ GameNew
  /\ levelMaps = maps
  /\ BusNew
  /\ activeTool = "scrub"
  /\ toolActive = [t \in ToolIds |-> t = "scrub"]
  /\ toolLog = << LifecycleCall("activate", "scrub") >>
  /\ mgrOp = [name |-> "setActiveTool", tool |-> "scrub", was |-> NoTool]
  /\ InputNew
  /\ inputKind \in {"service", "service0", "handler"}
  /\ wash = WashNew

\* the pointers press, move and release in any interleaving
NextPointer ==
  \/ \E id \in Pointers : SvcDown(id)
  \/ \E id \in Pointers : SvcMove(id)
  \/ \E id \in Pointers : SvcUp(id)
  \/ \E id \in Pointers : Svc0Down(id)
  \/ \E id \in Pointers : Svc0Move(id)
  \/ \E id \in Pointers : Svc0Up(id)
  \/ \E id \in Pointers : HdlDown(id, 0)
  \/ \E id \in Pointers : HdlMove(id, 0)
  \/ \E id \in Pointers : HdlUp(id, 0)

SpecPointer == InitPointer /\ [][NextPointer]_vars

\* every delivered move or up follows a delivered down of the same pointer
\* with no delivered up in between
Bracketed ==
  \A k \in 1 .. Len(delivered) :
    delivered[k].op # "down" =>
      \E j \in 1 .. (k - 1) :
        /\ delivered[j].op = "down" /\ delivered[j].id = delivered[k].id
        /\ \A i \in (j + 1) .. (k - 1) : delivered[i].op = "move"

\* a down sample was delivered and the up sample that ends it was not yet:
\* a pointer is active
Outstanding ==
  \E j \in 1 .. Len(delivered) :
    /\ delivered[j].op = "down"
    /\ \A i \in (j + 1) .. Len(delivered) : delivered[i].op = "move"

\* the step handles the press of a pointer while another one is active
SecondPress ==
  /\ inputOp'.name = "down" /\ inputOp'.n = inputOp.n + 1
  /\ Outstanding

\* C36 -- Single active pointer: for any interleaving of pointerdown,
\* pointermove and pointerup events of several pointers, move and up samples
\* are delivered only for the pointer whose down sample was delivered and
\* only between that down and its up (every delivered move or up is preceded
\* by a delivered down of that pointer with no delivered up in between); the
\* press of a second pointer while one is down and active is not delivered,
\* so that the second pointer produces no samples at all.
C36_SingleActivePointer ==
  /\ []Bracketed
  /\ [][SecondPress => delivered' = delivered]_vars

\* the tracking InputService: pointer 0 pressed, pointer 1 pressed and moved
\* while 0 was down, then 0 moved and released; the samples delivered are
\* those of pointer 0
C36_Witness ==
  /\ inputKind = "service"
  /\ inputOp.n = 5
  /\ pressed = {1}
  /\ ~isDown /\ activePointerId = NoPointer
  /\ delivered = << [op |-> "down", id |-> 0], [op |-> "move", id |-> 0],
                    [op |-> "up", id |-> 0] >>

\* ------------------------------------------------------------------------
\* The power-wash tool: a stream aimed along one line of the surface
\* ------------------------------------------------------------------------

\* pointer positions (px) the stream starts at and is aimed at, and the
\* part of the line the object covers (isPointOnObject)
WashXs == {0, 4, 8}
OnObject(x) == x >= 5 /\ x <= 9

\* frame times handed to update (ms, fixed point)
WashDeltas == {16 * ONE, 100 * ONE}

\* the values Math.random() yields for the stamps of one update, in turn
RandomStreams == {<< 0, 999 >>, << 999, 0 >>}

\* powerWashConfig: maxRange (px), pressure and jitter (fixed point) of the
\* catalog; the ray is sampled every stepSize = 3 px
WashConfig == [maxRange |-> 500, pressure |-> 1500, jitter |-> 120, stepSize |-> 3]

\* tickInterval = 1000 / tickRate (ms, fixed point)
TickInterval(w) == (1000 * ONE) \div w.tickRate

\* updateStreamHitPoint(): the first sample of the ray on the object
RECURSIVE RayMarch(_, _, _, _)
RayMarch(start, dir, step, maxSteps) ==
  IF step > maxSteps THEN [hit |-> FALSE, x |-> 0]
  ELSE IF OnObject(start + dir * WashConfig.stepSize * step)
    THEN [hit |-> TRUE, x |-> start + dir * WashConfig.stepSize * step]
  ELSE RayMarch(start, dir, step + 1, maxSteps)

updateStreamHitPoint(w) ==
  LET dx == w.streamTargetX - w.streamStartX
      distance == Abs(dx)
      ray == RayMarch(w.streamStartX, IF dx > 0 THEN 1 ELSE -1, 1,
                      Min(WashConfig.maxRange, distance) \div WashConfig.stepSize)
  IN  IF distance < 1 THEN [w EXCEPT !.hasHit = FALSE]
      ELSE IF ray.hit THEN [w EXCEPT !.hasHit = TRUE, !.streamHitX = ray.x]
      ELSE [w EXCEPT !.hasHit = FALSE]

\* the loop of update() leaving a whole interval in the carried time
RECURSIVE TickLoop_strict(_, _, _)
TickLoop_strict(carry, interval, count) ==
  IF carry > interval THEN TickLoop_strict(carry - interval, interval, count + 1)
  ELSE [carry |-> carry, stamps |-> count]

\* while (timeSinceLastTick >= tickInterval) { applyErosionAtHitPoint();
\* timeSinceLastTick -= tickInterval }
RECURSIVE TickLoop(_, _, _)
TickLoop(carry, interval, count) ==
  IF carry >= interval THEN TickLoop(carry - interval, interval, count + 1)
  ELSE [carry |-> carry, stamps |-> count]

\* applyErosionAtHitPoint(), k times: each stamp with its own random radius
RECURSIVE Erode(_, _, _, _, _)
Erode(mps, x, k, n, randoms) ==
  IF k > n THEN mps
  ELSE LET uv == worldToLocal(x * ONE, PointerY)
           jitterAmount == ONE + ((FracAt(randoms, k) - ONE \div 2) * WashConfig.jitter) \div ONE
       IN  Erode(applyStampUV(mps, mask, layers, uv.u, uv.v, WashConfig.pressure,
                              Max(ONE \div 2, jitterAmount)),
                 x, k + 1, n, randoms)

\* one more call of the power-wash tool, or of the manager selecting it
WashCall(name, deltaMs, stamps) ==
  /\ washOp.n < MaxEvents
  /\ washOp' = [name |-> name, stamps |-> stamps, deltaMs |-> deltaMs,
                n |-> washOp.n + 1]
  /\ UNCHANGED << variant, mask, layers, insideCount, arrays, scratchA,
                  scratchB, rng, ops, twinVars, gens, strokeVars, sceneVars,
                  gameVars, busVars, toolLog, inputVars >>

\* a call that leaves the engine alone
NoErosion == UNCHANGED << maps, prev, lastOp >>

\* toolManager.setActiveTool(powerWash): PowerWashTool.activate()
WashSelect ==
  /\ activeTool = NoTool
  /\ WashCall("activate", 0, 0)
  /\ activeTool' = "powerWash"
  /\ toolActive' = [toolActive EXCEPT !["powerWash"] = TRUE]
  /\ mgrOp' = [name |-> "setActiveTool", tool |-> "powerWash", was |-> activeTool]
  /\ UNCHANGED wash
  /\ NoErosion

\* toolManager.deactivateAll(): PowerWashTool.deactivate()
WashDeselect ==
  /\ activeTool = "powerWash"
  /\ WashCall("deactivate", 0, 0)
  /\ activeTool' = NoTool
  /\ toolActive' = [toolActive EXCEPT !["powerWash"] = FALSE]
  /\ mgrOp' = [name |-> "deactivateAll", tool |-> NoTool, was |-> activeTool]
  /\ wash' = PowerWash_deactivate(wash)
  /\ NoErosion

\* powerWash.handleDown(x, y, t)
WashDown(x) ==
  /\ WashCall("down", 0, 0)
  /\ wash' = IF toolActive["powerWash"] THEN PowerWash_handleDown(wash, x)
             ELSE wash
  /\ UNCHANGED << activeTool, toolActive, mgrOp >>
  /\ NoErosion

\* powerWash.handleMove(x, y, t)
WashMove(x) ==
  /\ WashCall("move", 0, 0)
  /\ wash' = IF toolActive["powerWash"] THEN PowerWash_handleMove(wash, x)
             ELSE wash
  /\ UNCHANGED << activeTool, toolActive, mgrOp >>
  /\ NoErosion

\* powerWash.handleUp(x, y, t)
WashUp(x) ==
  /\ WashCall("up", 0, 0)
  /\ wash' = IF toolActive["powerWash"] THEN PowerWash_handleUp(wash, x)
             ELSE wash
  /\ UNCHANGED << activeTool, toolActive, mgrOp >>
  /\ NoErosion

\* powerWash.update(deltaMs), Math.random() yielding the values of `randoms`
WashUpdate(deltaMs, randoms) ==
  /\ UNCHANGED << activeTool, toolActive, mgrOp >>
  /\ IF ~toolActive["powerWash"] \/ ~wash.isStreaming
       THEN WashCall("update", deltaMs, 0) /\ UNCHANGED wash /\ NoErosion
       ELSE \E aimed \in { updateStreamHitPoint(wash) } :
              IF ~aimed.hasHit
                THEN /\ WashCall("update", deltaMs, 0)
                     /\ wash' = aimed
                     /\ NoErosion
                ELSE \E loop \in { TickLoop(aimed.timeSinceLastTick + deltaMs,
                                            TickInterval(aimed), 0) } :
                       /\ WashCall("update", deltaMs, loop.stamps)
                       /\ wash' = [aimed EXCEPT !.timeSinceLastTick = loop.carry]
                       /\ maps' = Erode(maps, aimed.streamHitX, 1, loop.stamps,
                                        randoms)
                       /\ prev' = maps
                       /\ lastOp' = [NoOp EXCEPT !.name = "erode"]

\* the scene after create(), its engine initialised, with a PowerWashTool
\* that was not selected yet
InitWash ==
  /\ variant = "thickness"
  /\ mask = MaskRow
  /\ layers = LayersGrease
  /\ insideCount = CountInside(mask)
  /\ \E e \in { InitLayers(variant, mask, insideCount, layers,
                             DEFAULT_COVERAGE, 1,
                             [maps |-> [id \in LayerIds |-> ZeroGrid],
                              arrays |-> NewArrays,
                              scratchA |-> ZeroGrid, scratchB |-> ZeroGrid,
                              rng |-> RNG_new(SceneSeed)]) } :
        /\ maps = e.maps
        /\ arrays = e.arrays
        /\ scratchA = e.scratchA
        /\ scratchB = e.scratchB
        /\ rng = e.rng
  /\ prev = [id \in LayerIds |-> ZeroGrid]
  /\ lastOp = [NoOp EXCEPT !.name = "init", !.seed = SceneSeed,
                           !.coverage = DEFAULT_COVERAGE]
  /\ ops = 0
  /\ TwinNew /\ GensNone /\ StrokeIdle
  /\ overlayDirty = FALSE
  /\ texture = maps
  /\ GameNew
  /\ levelMaps = maps
  /\ BusNew /\ ManagerNew /\ InputNew
  /\ inputKind = "handler"

NextWash ==
  \/ WashSelect
  \/ WashDeselect
  \/ \E x \in WashXs : WashDown(x)
  \/ \E x \in WashXs : WashMove(x)
  \/ \E x \in WashXs : WashUp(x)
  \/ \E deltaMs \in WashDeltas, randoms \in RandomStreams :
       WashUpdate(deltaMs, randoms)

SpecWash == InitWash /\ [][NextWash]_vars

\* the step is an update(deltaMs)
UpdateCall == washOp'.name = "update" /\ washOp'.n = washOp.n + 1

\* the number of cells of the grease map that differ between two maps
Eroded(before, after) ==
  Cardinality({i \in Cells : after["grease"][i] < before["grease"][i]})

\* C37 -- Power-wash tick accumulator: with tickRate > 0 and
\* interval = 1000 / tickRate, an update(deltaMs) while the tool is active,
\* streaming and hitting the object applies exactly
\* floor((carry + deltaMs) / interval) erosion stamps and leaves the carried
\* time in [0, interval); update applies no stamp, and erodes nothing, when
\* the tool is inactive, not streaming (before handleDown or after
\* handleUp/deactivate) or the stream hits nothing; the loop terminates (the
\* call completes).
C37_TickAccumulator ==
  [][UpdateCall =>
       IF toolActive["powerWash"] /\ wash.isStreaming /\ wash'.hasHit
         THEN /\ washOp'.stamps
                   = (wash.timeSinceLastTick + washOp'.deltaMs)
                        \div ((1000 * ONE) \div wash.tickRate)
              /\ wash'.timeSinceLastTick >= 0
              /\ wash'.timeSinceLastTick < (1000 * ONE) \div wash.tickRate
              /\ wash'.timeSinceLastTick
                   = (wash.timeSinceLastTick + washOp'.deltaMs)
                        % ((1000 * ONE) \div wash.tickRate)
              /\ (washOp'.stamps = 0 => maps' = maps)
         ELSE /\ washOp'.stamps = 0
              /\ maps' = maps
              /\ wash'.timeSinceLastTick = wash.timeSinceLastTick]_vars

\* an update that found a carried time, applied two stamps or more that
\* eroded the surface, and carried the rest over
C37_Witness ==
  /\ washOp.name = "update" /\ washOp.stamps >= 2
  /\ washOp.stamps * ((1000 * ONE) \div wash.tickRate)
       + wash.timeSinceLastTick > washOp.deltaMs
  /\ wash.timeSinceLastTick > 0
  /\ wash.hasHit /\ wash.isStreaming /\ toolActive["powerWash"]
  /\ Eroded(prev, maps) > 0

============================================================================
